---------------------------- MODULE Spec2Model ----------------------------
(***************************************************************************)
(* A model of the Cisco CSR / OpenSwan IPsec VPN device driver             *)
(* (neutron/services/vpn/device_drivers/cisco_ipsec.py).                   *)
(*                                                                         *)
(* The module holds four state machines over one set of variables:         *)
(*   Spec        the transactional provisioner of CiscoCsrIPsecDriver      *)
(*               (create/delete_ipsec_site_connection, do_rollback);       *)
(*   SpecDialect the dialect translator (translate_dialect,                *)
(*               validate_lifetime);                                       *)
(*   SpecParse   the status parser of BaseSwanProcess                      *)
(*               (_update_connection_status);                              *)
(*   SpecRecon   the status reconciler (report_status) over the driver's   *)
(*               process map.                                              *)
(* Text the code lower-cases or matches against a regular expression is    *)
(* a sequence of one-character strings, so that str.lower(), str.split()   *)
(* and re.search() are computed and not assumed.                           *)
(***************************************************************************)
EXTENDS Integers, Sequences, FiniteSets, TLC

VARIABLES
    steps,          \* CiscoCsrIPsecDriver.steps: the in-flight RollbackStep log
    connections,    \* CiscoCsrIPsecDriver.connections: conn id -> step log
    appliance,      \* resources that exist on the CSR, per resource kind
    pc,             \* position of the provisioning handler in flight
    frame,          \* locals of the handler in flight
    calls,          \* remote calls issued by the current (or last) handler
    outcome,        \* how the last handler ended
    faults,         \* failure answers the appliance has given so far
    dl,             \* last call of the dialect translator and its result
    processes,      \* CiscoCsrIPsecDriver.processes: process id -> Process
    process_status_cache, \* CiscoCsrIPsecDriver.process_status_cache
    daemon,         \* what `ipsec whack --status` answers, per process id
    psr,            \* last call of the status parser: input and state before
    sent,           \* status batches handed to agent_rpc.update_status
    rs,             \* last reconciliation pass: the process state it saw
    config,         \* process ids whose configuration directory is rendered
    lc,             \* last lifecycle operation of a process and its commands
    lock,           \* holder of the lock 'neutron-vpn-agent', or "free"
    sync_pc,        \* position of each thread that calls sync
    sync_done       \* sync calls each thread has completed

vars ==
    <<steps, connections, appliance, pc, frame, calls, outcome, faults, dl,
      processes, process_status_cache, daemon, psr, sent, rs,
      config, lc, lock, sync_pc, sync_done>>

provVars ==
    <<steps, connections, appliance, pc, frame, calls, outcome, faults>>

lifeVars ==
    <<config, lc>>

syncVars ==
    <<lock, sync_pc, sync_done>>

procVars ==
    <<processes, process_status_cache, daemon, psr, sent, rs, lifeVars,
      syncVars>>

-----------------------------------------------------------------------------
(* Text: sequences of one-character strings.                               *)

UpperChars ==
    <<"A","B","C","D","E","F","G","H","I","J","K","L","M",
      "N","O","P","Q","R","S","T","U","V","W","X","Y","Z">>

LowerChars ==
    <<"a","b","c","d","e","f","g","h","i","j","k","l","m",
      "n","o","p","q","r","s","t","u","v","w","x","y","z">>

\* the lower-case letter of every upper-case letter
LowerTable ==
    [c \in {UpperChars[i] : i \in 1..Len(UpperChars)} |->
        LowerChars[CHOOSE i \in 1..Len(UpperChars) : UpperChars[i] = c]]

\* str.lower() on one character
LowerChar(c) ==
    IF c \in DOMAIN LowerTable THEN LowerTable[c] ELSE c

\* str.lower()
Lower(s) ==
    [i \in 1..Len(s) |-> LowerChar(s[i])]

s_name == <<"n","a","m","e">>
s_v1 == <<"v","1">>
s_v2 == <<"v","2">>
s_sha1 == <<"s","h","a","1">>
s_md5 == <<"m","d","5">>
s_des == <<"d","e","s">>
s_3des == <<"3","d","e","s">>
s_aes128 == <<"a","e","s","-","1","2","8">>
s_aes192 == <<"a","e","s","-","1","9","2">>
s_aes256 == <<"a","e","s","-","2","5","6">>
s_group2 == <<"g","r","o","u","p","2">>
s_group5 == <<"g","r","o","u","p","5">>
s_group14 == <<"g","r","o","u","p","1","4">>
s_esp == <<"e","s","p">>
s_ah == <<"a","h">>
s_ah_esp == <<"a","h","-","e","s","p">>
s_AES128 == <<"A","E","S","-","1","2","8">>
s_Sha1 == <<"S","h","a","1">>
s_V1 == <<"V","1">>
s_3DES == <<"3","D","E","S">>
s_Group5 == <<"G","r","o","u","p","5">>
s_ESP == <<"E","S","P">>
s_NAME == <<"N","A","M","E">>
s_empty == <<>>

-----------------------------------------------------------------------------
(* Dialect translator: CiscoCsrIPsecDriver.DIALECT_MAP, LIFETIME_MAP,      *)
(* translate_dialect, validate_lifetime.                                   *)
(* The table values 2, 5 and 14 of ike_policy are integers in the source;  *)
(* they are written "2", "5", "14" here because TLC cannot compare an      *)
(* integer with a string.                                                  *)

Resources == {"ike_policy", "ipsec_policy"}

DIALECT_MAP ==
    [ike_policy |->
        (s_name :> "IKE Policy") @@ (s_v1 :> "v1") @@ (s_sha1 :> "sha") @@
        (s_3des :> "3des") @@ (s_aes128 :> "aes") @@ (s_aes192 :> "aes") @@
        (s_aes256 :> "aes") @@ (s_group2 :> "2") @@ (s_group5 :> "5") @@
        (s_group14 :> "14"),
     ipsec_policy |->
        (s_name :> "IPSec Policy") @@ (s_sha1 :> "esp-sha-hmac") @@
        (s_esp :> "ah-sha-hmac") @@ (s_ah :> "ah-sha-hmac") @@
        (s_ah_esp :> "ah-sha-hmac") @@ (s_3des :> "esp-3des") @@
        (s_aes128 :> "esp-aes") @@ (s_aes192 :> "esp-aes") @@
        (s_aes256 :> "esp-aes") @@ (s_group2 :> "group2") @@
        (s_group5 :> "group5") @@ (s_group14 :> "group14")]

\* the values the table of a resource kind lists for each attribute: the
\* groups the comments of DIALECT_MAP name, and 'v1' for the version
SupportedValues ==
    [ike_policy |->
        [ike_version |-> {s_v1},
         auth_algorithm |-> {s_sha1},
         encryption_algorithm |-> {s_3des, s_aes128, s_aes192, s_aes256},
         pfs |-> {s_group2, s_group5, s_group14},
         transform_protocol |-> {}],
     ipsec_policy |->
        [ike_version |-> {},
         auth_algorithm |-> {s_sha1},
         transform_protocol |-> {s_esp, s_ah, s_ah_esp},
         encryption_algorithm |-> {s_3des, s_aes128, s_aes192, s_aes256},
         pfs |-> {s_group2, s_group5, s_group14}]]

LIFETIME_MAP ==
    [ike_policy |-> [min |-> 60, max |-> 86400],
     ipsec_policy |-> [min |-> 120, max |-> 2592000]]

\* raise CsrDriverImplementationError(resource=name, attr=attr)
CsrDriverImplementationError(name, attr) ==
    [raised |-> "CsrDriverImplementationError", resource |-> name, attr |-> attr]

\* raise CsrValidationFailure(resource=name, key=key, value=value)
CsrValidationFailure(name, key, value) ==
    [raised |-> "CsrValidationFailure", resource |-> name, key |-> key,
     value |-> value]

\* a normal return
Returned(value) ==
    [raised |-> "none", value |-> value]

\* a lookup key that is not lower-cased
dialect_key_as_given(value) ==
    value

\* the key translate_dialect looks up: `info[attribute].lower()` (line 604)
dialect_key(value) ==
    Lower(value)

translate_dialect(resource, attribute, info) ==
    LET name == DIALECT_MAP[resource][s_name]
    IN  IF attribute \notin DOMAIN info
        THEN CsrDriverImplementationError(name, attribute)
        ELSE LET value == dialect_key(info[attribute])
             IN  IF value \in DOMAIN DIALECT_MAP[resource]
                 THEN Returned(DIALECT_MAP[resource][value])
                 ELSE CsrValidationFailure(name, attribute, value)

\* a range test that excludes the two boundaries
lifetime_in_range_open(resource, lifetime) ==
    /\ LIFETIME_MAP[resource].min < lifetime
    /\ lifetime < LIFETIME_MAP[resource].max

\* the range test of validate_lifetime (lines 625-626)
lifetime_in_range(resource, lifetime) ==
    /\ LIFETIME_MAP[resource].min <= lifetime
    /\ lifetime <= LIFETIME_MAP[resource].max

validate_lifetime(resource, policy_info) ==
    LET name == DIALECT_MAP[resource][s_name]
    IN  IF "lifetime" \notin DOMAIN policy_info
        THEN CsrDriverImplementationError(name, "lifetime")
        ELSE LET lifetime_info == policy_info["lifetime"]
             IN  IF "units" \notin DOMAIN lifetime_info
                 THEN CsrDriverImplementationError(name, "lifetime:units")
                 ELSE IF lifetime_info["units"] # "seconds"
                 THEN CsrValidationFailure(name, "lifetime:units",
                                           lifetime_info["units"])
                 ELSE IF "value" \notin DOMAIN lifetime_info
                 THEN CsrDriverImplementationError(name, "lifetime:value")
                 ELSE IF lifetime_in_range(resource, lifetime_info["value"])
                 THEN Returned(lifetime_info["value"])
                 ELSE CsrValidationFailure(name, "lifetime:value",
                                           lifetime_info["value"])

-----------------------------------------------------------------------------
(* Transactional provisioner: payload building                             *)
(* (create_psk_info .. create_routes_info, lines 631-732).                 *)

MaxPeerCidrs == 2

ConnIds == {"c1", "c2"}

\* the ids the service driver hands over in conn_info['cisco'] (lines
\* 798-800).  The handler takes them as they come and leaves open whether a
\* policy on the appliance belongs to one connection or is shared (lines
\* 795-796): the two connections have the IKE policy in common and an IPsec
\* policy each.
SiteConnIdOf == [c1 |-> "Tunnel0", c2 |-> "Tunnel1"]

IkePolicyIdOf == [c1 |-> "2", c2 |-> "2"]

IpsecPolicyIdOf == [c1 |-> "8", c2 |-> "9"]

\* the i-th peer CIDR of connection c
PeerCidr(c, i) ==
    [net |-> c, idx |-> i]

\* an exception that is neither of the driver's two error kinds
KeyError(key) ==
    [raised |-> "KeyError", key |-> key]

\* the first raised exception among the results of a statement sequence
FirstRaised(results) ==
    IF \E i \in 1..Len(results) : results[i].raised # "none"
    THEN results[CHOOSE i \in 1..Len(results) :
                    /\ results[i].raised # "none"
                    /\ \A j \in 1..(i - 1) : results[j].raised = "none"]
    ELSE Returned("none")

\* csr.make_route_id of the REST client: the id a static route is known by
make_route_id(peer_cidr, site_conn_id) ==
    [rid_cidr |-> peer_cidr, rid_if |-> site_conn_id]

create_psk_info(psk_id, info) ==
    LET conn_info == info["site_conn"]
    IN  IF "psk" \notin DOMAIN conn_info THEN KeyError("psk")
        ELSE Returned([keyring_name |-> psk_id,
                       key |-> conn_info["psk"],
                       peer_address |-> conn_info["peer_address"]])

create_ike_policy_info(ike_policy_id, conn_info) ==
    LET for_ike == "ike_policy"
        policy_info == conn_info[for_ike]
        version == translate_dialect(for_ike, "ike_version", policy_info)
        encrypt_algorithm ==
            translate_dialect(for_ike, "encryption_algorithm", policy_info)
        auth_algorithm ==
            translate_dialect(for_ike, "auth_algorithm", policy_info)
        group == translate_dialect(for_ike, "pfs", policy_info)
        lifetime == validate_lifetime(for_ike, policy_info)
        err == FirstRaised(<<version, encrypt_algorithm, auth_algorithm,
                             group, lifetime>>)
    IN  IF err.raised # "none" THEN err
        ELSE Returned([version |-> version.value,
                       priority_id |-> ike_policy_id,
                       encryption |-> encrypt_algorithm.value,
                       hash |-> auth_algorithm.value,
                       dhGroup |-> group.value,
                       lifetime |-> lifetime.value])

create_ipsec_policy_info(ipsec_policy_id, info) ==
    LET for_ipsec == "ipsec_policy"
        policy_info == info[for_ipsec]
        transform_protocol ==
            translate_dialect(for_ipsec, "transform_protocol", policy_info)
        auth_algorithm ==
            translate_dialect(for_ipsec, "auth_algorithm", policy_info)
        encrypt_algorithm ==
            translate_dialect(for_ipsec, "encryption_algorithm", policy_info)
        group == translate_dialect(for_ipsec, "pfs", policy_info)
        lifetime == validate_lifetime(for_ipsec, policy_info)
        err == FirstRaised(<<transform_protocol, auth_algorithm,
                             encrypt_algorithm, group, lifetime>>)
    IN  IF err.raised # "none" THEN err
        ELSE Returned([policy_id |-> ipsec_policy_id,
                       esp_encryption |-> encrypt_algorithm.value,
                       esp_authentication |-> auth_algorithm.value,
                       ah |-> transform_protocol.value,
                       lifetime_sec |-> lifetime.value,
                       pfs |-> group.value])

\* Python truth value of info['cisco']['router_public_ip']
Falsy(x) ==
    x \in {"None", ""}

create_site_connection_info(site_conn_id, ipsec_policy_id, info) ==
    IF Falsy(info["cisco"]["router_public_ip"])
    THEN CsrValidationFailure("Router", "router-gateway", "undefined")
    ELSE LET conn_info == info["site_conn"]
         IN  IF "mtu" \notin DOMAIN conn_info THEN KeyError("mtu")
             ELSE Returned([vpn_interface_name |-> site_conn_id,
                            ipsec_policy_id |-> ipsec_policy_id,
                            remote_tunnel_ip_address |->
                                conn_info["peer_address"],
                            mtu |-> conn_info["mtu"]])

create_routes_info(site_conn_id, info) ==
    LET peer_cidrs ==
            IF "peer_cidrs" \in DOMAIN info["site_conn"]
            THEN info["site_conn"]["peer_cidrs"]
            ELSE <<>>
    IN  IF peer_cidrs = <<>>
        THEN CsrValidationFailure("IPSec Site Connection", "peer-cidrs",
                                  "undefined")
        ELSE Returned([i \in 1..Len(peer_cidrs) |->
                LET route == [destination_network |-> peer_cidrs[i],
                              outgoing_interface |-> site_conn_id]
                    route_id == make_route_id(peer_cidrs[i], site_conn_id)
                IN  <<route_id, route>>])

\* the first try block of create_ipsec_site_connection (lines 805-814)
build_payloads(conn_info) ==
    LET conn_id == conn_info["site_conn"]["id"]
        psk_id == conn_id
        site_conn_id == conn_info["cisco"]["site_conn_id"]
        ike_policy_id == conn_info["cisco"]["ike_policy_id"]
        ipsec_policy_id == conn_info["cisco"]["ipsec_policy_id"]
        psk_info == create_psk_info(psk_id, conn_info)
        ike_policy_info == create_ike_policy_info(ike_policy_id, conn_info)
        ipsec_policy_info ==
            create_ipsec_policy_info(ipsec_policy_id, conn_info)
        connection_info ==
            create_site_connection_info(site_conn_id, ipsec_policy_id,
                                        conn_info)
        routes_info == create_routes_info(site_conn_id, conn_info)
        err == FirstRaised(<<psk_info, ike_policy_info, ipsec_policy_info,
                             connection_info, routes_info>>)
    IN  IF err.raised # "none" THEN err
        ELSE Returned([psk_info |-> psk_info.value,
                       ike_policy_info |-> ike_policy_info.value,
                       ipsec_policy_info |-> ipsec_policy_info.value,
                       connection_info |-> connection_info.value,
                       routes_info |-> routes_info.value])

\* a handler that catches the implementation error alone
build_error_caught_impl_only(err) ==
    err.raised = "CsrDriverImplementationError"

\* the except clauses of the first try block (lines 815-820): log and return
build_error_caught(err) ==
    err.raised \in {"CsrDriverImplementationError", "CsrValidationFailure"}

RollbackStep(action, resource_id, title) ==
    [action |-> action, resource_id |-> resource_id, title |-> title]

\* the loop header `for route_info, route_id in routes_info` (line 834):
\* the pair built by create_routes_info, unpacked into the loop's two names
unpack_route(pair) ==
    [route_info |-> pair[1], route_id |-> pair[2]]

\* a call order that creates the IKE policy before the pre-shared key
create_actions_policy_first(conn_info, built) ==
    << [action |-> "ike_policy", info |-> built.ike_policy_info,
        resource_id |-> conn_info["cisco"]["ike_policy_id"],
        title |-> "IKE Policy"],
       [action |-> "pre_shared_key", info |-> built.psk_info,
        resource_id |-> conn_info["site_conn"]["id"],
        title |-> "Pre-Shared Key"] >>

\* the do_create_action calls of the second try block, in program order
\* (lines 824-836)
create_actions(conn_info, built) ==
    LET conn_id == conn_info["site_conn"]["id"]
        site_conn_id == conn_info["cisco"]["site_conn_id"]
        ike_policy_id == conn_info["cisco"]["ike_policy_id"]
        ipsec_policy_id == conn_info["cisco"]["ipsec_policy_id"]
    IN  << [action |-> "pre_shared_key", info |-> built.psk_info,
            resource_id |-> conn_id, title |-> "Pre-Shared Key"],
           [action |-> "ike_policy", info |-> built.ike_policy_info,
            resource_id |-> ike_policy_id, title |-> "IKE Policy"],
           [action |-> "ipsec_policy", info |-> built.ipsec_policy_info,
            resource_id |-> ipsec_policy_id, title |-> "IPSec Policy"],
           [action |-> "ipsec_connection", info |-> built.connection_info,
            resource_id |-> site_conn_id, title |-> "IPSec Connection"] >>
        \o [i \in 1..Len(built.routes_info) |->
                LET u == unpack_route(built.routes_info[i])
                IN  [action |-> "static_route", info |-> u.route_info,
                     resource_id |-> u.route_id, title |-> "Static Route"]]

-----------------------------------------------------------------------------
(* The create requests the service driver sends: a well-formed one per     *)
(* connection and peer-CIDR count, and single-fault variants of it.        *)

GoodLifetime == [units |-> "seconds", value |-> 3600]

GoodIke ==
    [ike_version |-> s_v1, encryption_algorithm |-> s_aes128,
     auth_algorithm |-> s_sha1, pfs |-> s_group5, lifetime |-> GoodLifetime]

GoodIpsec ==
    [transform_protocol |-> s_esp, encryption_algorithm |-> s_aes256,
     auth_algorithm |-> s_sha1, pfs |-> s_group14, lifetime |-> GoodLifetime]

\* a dict without key k
Without(f, k) ==
    [x \in DOMAIN f \ {k} |-> f[x]]

\* a dict with key k set to v
With(f, k, v) ==
    [x \in DOMAIN f \cup {k} |-> IF x = k THEN v ELSE f[x]]

FaultyVariants ==
    {"ike_no_version", "ike_des", "ike_life_minutes", "ipsec_no_pfs",
     "ipsec_life_119", "no_public_ip", "no_cidrs_key", "no_psk"}

IkeOf(variant) ==
    CASE variant = "upper" ->
            With(With(GoodIke, "encryption_algorithm", s_AES128),
                 "ike_version", s_V1)
      [] variant = "ike_no_version" -> Without(GoodIke, "ike_version")
      [] variant = "ike_des" -> With(GoodIke, "encryption_algorithm", s_des)
      [] variant = "ike_life_minutes" ->
            With(GoodIke, "lifetime", [units |-> "minutes", value |-> 60])
      [] OTHER -> GoodIke

IpsecOf(variant) ==
    CASE variant = "upper" -> With(GoodIpsec, "transform_protocol", s_ESP)
      [] variant = "ipsec_no_pfs" -> Without(GoodIpsec, "pfs")
      [] variant = "ipsec_life_119" ->
            With(GoodIpsec, "lifetime", [units |-> "seconds", value |-> 119])
      [] OTHER -> GoodIpsec

\* conn_info for connection c with n peer CIDRs
Request(c, n, variant) ==
    LET site0 == [id |-> c, psk |-> "secret", peer_address |-> "192.168.1.2",
                  mtu |-> 1500,
                  peer_cidrs |-> [i \in 1..n |-> PeerCidr(c, i)]]
        site1 == IF variant = "no_cidrs_key"
                 THEN Without(site0, "peer_cidrs") ELSE site0
        site2 == IF variant = "no_psk" THEN Without(site1, "psk") ELSE site1
    IN  [site_conn |-> site2,
         ike_policy |-> IkeOf(variant),
         ipsec_policy |-> IpsecOf(variant),
         cisco |-> [site_conn_id |-> SiteConnIdOf[c],
                    ike_policy_id |-> IkePolicyIdOf[c],
                    ipsec_policy_id |-> IpsecPolicyIdOf[c],
                    router_public_ip |->
                        IF variant = "no_public_ip" THEN "None"
                        ELSE "172.24.4.23"]]

\* connection c1 with 0..MaxPeerCidrs peer CIDRs and c2 with one,
\* well-formed; the other variants for c1 with one peer CIDR
Requests ==
    {Request("c1", n, "good") : n \in 0..MaxPeerCidrs}
    \cup {Request("c2", 1, "good")}
    \cup {Request("c1", 1, v) : v \in FaultyVariants \cup {"upper"}}

\* build_payloads of every request (evaluated once, not once per state)
BuiltPayloads ==
    [conn_info \in Requests |-> build_payloads(conn_info)]

-----------------------------------------------------------------------------
(* The CSR appliance behind the REST client: single-resource create and    *)
(* delete, each answering with an HTTP status (csr.status).                *)

HTTPCreated == 201

HTTPNoContent == 204

HTTPNotFound == 404

\* what a create can answer: created, or a failure (request timeout)
CreateStatuses == {HTTPCreated, 408}

\* what a delete can answer: no content, not found, or a failure (method
\* not allowed)
DeleteStatuses == {HTTPNoContent, HTTPNotFound, 405}

\* the answers that report a failed call
IsFault(status) ==
    status \notin {HTTPCreated, HTTPNoContent, HTTPNotFound}

\* the appliance fails at most MaxFaults calls in one run
MaxFaults == 2

\* the identifier under which the appliance files a created resource:
\* the id its payload carries; a static route is filed under its route id
ResourceKey(action, info) ==
    CASE action = "pre_shared_key" -> info.keyring_name
      [] action = "ike_policy" -> info.priority_id
      [] action = "ipsec_policy" -> info.policy_id
      [] action = "ipsec_connection" -> info.vpn_interface_name
      [] action = "static_route" ->
            IF "destination_network" \in DOMAIN info
            THEN make_route_id(info.destination_network,
                               info.outgoing_interface)
            ELSE info

\* the appliance after csr.create_<action>(info) answered status
CsrCreate(app, action, info, status) ==
    IF status = HTTPCreated
    THEN app \cup {<<action, ResourceKey(action, info)>>}
    ELSE app

\* the statuses csr.delete_<action>(resource_id) can answer: no content
\* only for a resource that exists, not found only for one that does not
CsrDeleteAnswers(app, action, resource_id) ==
    {s \in DeleteStatuses :
        /\ s = HTTPNoContent => <<action, resource_id>> \in app
        /\ s = HTTPNotFound => <<action, resource_id>> \notin app}

\* the appliance after csr.delete_<action>(resource_id) answered status
CsrDelete(app, action, resource_id, status) ==
    IF status = HTTPNoContent
    THEN app \ {<<action, resource_id>>}
    ELSE app

-----------------------------------------------------------------------------
(* Transactional provisioner: the handlers.                                *)

\* a check that accepts every answer
_check_create_accepts(status) ==
    TRUE

\* _check_create (lines 734-744): TRUE when it returns, FALSE when it
\* raises CsrResourceCreateFailure
_check_create(status) ==
    status = HTTPCreated

\* a verification that takes only "no content" for a removal
_verify_deleted_strict(status) ==
    IF status = HTTPNoContent THEN "debug" ELSE "warning"

\* _verify_deleted (lines 758-766): the log level it chooses; it never raises
_verify_deleted(status) ==
    IF status \in {HTTPNoContent, HTTPNotFound} THEN "debug" ELSE "warning"

\* a lookup that finds no step log
connections_get_nothing(conns, conn_id) ==
    <<>>

\* a lookup that keeps the previous step log when the id is unknown
connections_get_no_default(conns, conn_id) ==
    IF conn_id \in DOMAIN conns THEN conns[conn_id] ELSE steps

\* self.connections.get(conn_id, [])
connections_get(conns, conn_id) ==
    IF conn_id \in DOMAIN conns THEN conns[conn_id] ELSE <<>>

\* an assignment that persists an empty log
connections_set_empty(conns, conn_id, log) ==
    (conn_id :> <<>>) @@ conns

\* self.connections[conn_id] = self.steps
connections_set(conns, conn_id, log) ==
    (conn_id :> log) @@ conns

\* the locals of a handler: the create actions still to do, the loop index
\* of do_rollback, and what the handler found on entry (the connections map,
\* the step log, and whether it repeats a completed delete of the same id)
IdleFrame ==
    [op |-> "none", conn_id |-> "none", todo |-> <<>>, idx |-> 0,
     want |-> {}, created |-> {}, build |-> "none",
     pre_connections |-> <<>>, pre_steps |-> <<>>, repeat |-> FALSE]

\* the frame of a handler entered in the current state
EnterFrame(op, conn_id) ==
    [IdleFrame EXCEPT
        !.op = op,
        !.conn_id = conn_id,
        !.pre_connections = connections,
        !.pre_steps = steps,
        !.repeat = /\ op = "delete"
                   /\ outcome.op = "delete"
                   /\ outcome.conn_id = conn_id
                   /\ outcome.result = "COMPLETED"]

\* the resources a request asks for: key, both policies, the tunnel and one
\* static route per peer CIDR
WantedResources(conn_info) ==
    LET sc == conn_info["site_conn"]
        cisco == conn_info["cisco"]
        cidrs == IF "peer_cidrs" \in DOMAIN sc THEN sc["peer_cidrs"] ELSE <<>>
    IN  {<<"pre_shared_key", sc["id"]>>,
         <<"ike_policy", cisco["ike_policy_id"]>>,
         <<"ipsec_policy", cisco["ipsec_policy_id"]>>,
         <<"ipsec_connection", cisco["site_conn_id"]>>}
        \cup {<<"static_route",
                make_route_id(cidrs[i], cisco["site_conn_id"])>> :
              i \in 1..Len(cidrs)}

ProvInit ==
    /\ steps = <<>>
    /\ connections = <<>>
    /\ appliance = {}
    /\ pc = "idle"
    /\ frame = IdleFrame
    /\ calls = <<>>
    /\ outcome = [op |-> "none", conn_id |-> "none", result |-> "none",
                  error |-> "none"]
    /\ faults = 0

\* create_ipsec_site_connection up to its first remote call (lines 793-823)
create_ipsec_site_connection(conn_info) ==
    LET conn_id == conn_info["site_conn"]["id"]
        built == BuiltPayloads[conn_info]
    IN  /\ pc = "idle"
        /\ calls' = <<>>
        /\ UNCHANGED <<connections, appliance, faults>>
        /\ IF built.raised # "none"
           THEN /\ outcome' = [op |-> "create", conn_id |-> conn_id,
                               result |-> IF build_error_caught(built)
                                          THEN "BUILD_FAILED" ELSE "RAISED",
                               error |-> built.raised]
                /\ frame' = [EnterFrame("create", conn_id) EXCEPT
                                !.build = built.raised]
                /\ UNCHANGED <<steps, pc>>
           ELSE /\ steps' = <<>>
                /\ frame' = [EnterFrame("create", conn_id) EXCEPT
                                !.todo = create_actions(conn_info,
                                                        built.value),
                                !.want = WantedResources(conn_info)]
                /\ pc' = "create"
                /\ outcome' = [op |-> "create", conn_id |-> conn_id,
                               result |-> "running", error |-> "none"]

\* one do_create_action (lines 746-756) and what follows it in
\* create_ipsec_site_connection: the next create, the else branch
\* (lines 842-844) after the last one, or the except branch (line 838)
do_create_action(status) ==
    LET a == frame.todo[1]
    IN  /\ pc = "create"
        /\ IsFault(status) => faults < MaxFaults
        /\ faults' = IF IsFault(status) THEN faults + 1 ELSE faults
        /\ calls' = Append(calls, [op |-> "create", action |-> a.action,
                                   arg |-> a.info, status |-> status])
        /\ appliance' = CsrCreate(appliance, a.action, a.info, status)
        /\ IF _check_create(status)
           THEN /\ steps' = Append(steps, RollbackStep(a.action,
                                                       a.resource_id,
                                                       a.title))
                /\ frame' = [frame EXCEPT
                               !.todo = Tail(frame.todo),
                               !.created = frame.created \cup
                                   {<<a.action,
                                      ResourceKey(a.action, a.info)>>}]
                /\ IF Len(frame.todo) = 1
                   THEN /\ connections' =
                              connections_set(connections, frame.conn_id,
                                              steps')
                        /\ pc' = "idle"
                        /\ outcome' = [outcome EXCEPT !.result = "SUCCESS"]
                   ELSE UNCHANGED <<connections, pc, outcome>>
           ELSE /\ UNCHANGED connections
                /\ frame' = [frame EXCEPT !.idx = Len(steps)]
                /\ IF steps = <<>>
                   THEN /\ steps' = <<>>
                        /\ pc' = "idle"
                        /\ outcome' = [outcome EXCEPT !.result = "FAILED",
                                         !.error = "CsrResourceCreateFailure"]
                   ELSE /\ pc' = "rollback"
                        /\ outcome' = [outcome EXCEPT
                                         !.error = "CsrResourceCreateFailure"]
                        /\ UNCHANGED steps

\* one iteration of the loop of do_rollback (lines 769-778) and, after the
\* last one, `self.steps = []` (line 779) and the caller's last log line.
\* Line 779 rebinds the attribute: the list object that self.connections
\* holds for a created connection is not emptied, so connections is unchanged.
do_rollback(status) ==
    LET step == steps[frame.idx]
    IN  /\ pc = "rollback"
        /\ status \in CsrDeleteAnswers(appliance, step.action,
                                       step.resource_id)
        /\ IsFault(status) => faults < MaxFaults
        /\ faults' = IF IsFault(status) THEN faults + 1 ELSE faults
        /\ calls' = Append(calls, [op |-> "delete", action |-> step.action,
                                   arg |-> step.resource_id,
                                   status |-> status,
                                   log |-> _verify_deleted(status)])
        /\ appliance' = CsrDelete(appliance, step.action, step.resource_id,
                                  status)
        /\ IF frame.idx = 1
           THEN /\ steps' = <<>>
                /\ pc' = "idle"
                /\ frame' = [frame EXCEPT !.idx = 0]
                /\ outcome' = [outcome EXCEPT
                                 !.result = IF frame.op = "create"
                                            THEN "FAILED" ELSE "COMPLETED"]
           ELSE /\ frame' = [frame EXCEPT !.idx = frame.idx - 1]
                /\ UNCHANGED <<steps, pc, outcome>>
        /\ UNCHANGED connections

\* delete_ipsec_site_connection up to its first remote call (lines 853-860)
delete_ipsec_site_connection(conn_id) ==
    /\ pc = "idle"
    /\ calls' = <<>>
    /\ steps' = connections_get(connections, conn_id)
    /\ UNCHANGED <<connections, appliance, faults>>
    /\ IF steps' = <<>>
       THEN /\ frame' = EnterFrame("delete", conn_id)
            /\ outcome' = [op |-> "delete", conn_id |-> conn_id,
                           result |-> "NOT_FOUND", error |-> "none"]
            /\ UNCHANGED pc
       ELSE /\ frame' = [EnterFrame("delete", conn_id) EXCEPT
                           !.idx = Len(steps')]
            /\ outcome' = [op |-> "delete", conn_id |-> conn_id,
                           result |-> "running", error |-> "none"]
            /\ pc' = "rollback"

-----------------------------------------------------------------------------
(* Status parser: STATUS_MAP and BaseSwanProcess._update_connection_status *)
(* (lines 80-83, 292-305).                                                 *)

constants_ACTIVE == "ACTIVE"

constants_DOWN == "DOWN"

kw_erouted == <<"e","r","o","u","t","e","d">>

kw_unrouted == <<"u","n","r","o","u","t","e","d">>

\* a table that maps both keywords the wrong way round
STATUS_MAP_swapped ==
    (kw_erouted :> constants_DOWN) @@ (kw_unrouted :> constants_ACTIVE)

STATUS_MAP ==
    (kw_erouted :> constants_ACTIVE) @@ (kw_unrouted :> constants_DOWN)

\* \d
IsDigit(c) ==
    c \in {"0","1","2","3","4","5","6","7","8","9"}

\* [a-f0-9\-]
IsIdChar(c) ==
    \/ c \in {"a","b","c","d","e","f","-"}
    \/ IsDigit(c)

\* the literal w occurs in s at position k
HasAt(s, k, w) ==
    /\ k >= 1
    /\ k + Len(w) - 1 <= Len(s)
    /\ \A i \in 1..Len(w) : s[k + i - 1] = w[i]

\* ` (unrouted|erouted);` occurs in s at position k with keyword kw
KeywordAt(s, k, kw) ==
    /\ HasAt(s, k, <<" ">>)
    /\ HasAt(s, k + 1, kw)
    /\ HasAt(s, k + 1 + Len(kw), <<";">>)

\* `\d\d\d "` occurs in s at position p
PrefixAt(s, p) ==
    /\ p + 4 <= Len(s)
    /\ IsDigit(s[p]) /\ IsDigit(s[p + 1]) /\ IsDigit(s[p + 2])
    /\ s[p + 3] = " "
    /\ s[p + 4] = "\""

\* the lengths n >= 1 the group ([a-f0-9\-]+) can take after the prefix at p
GroupLengths(s, p) ==
    {n \in 1..(Len(s) - p - 4) : \A i \in 1..n : IsIdChar(s[p + 4 + i])}

\* the positions at or after `from` where the keyword part occurs
KeywordPositions(s, from) ==
    {k \in from..Len(s) : \E kw \in DOMAIN STATUS_MAP : KeywordAt(s, k, kw)}

\* the pattern matches s with its first character at p
MatchesAt(s, p) ==
    /\ PrefixAt(s, p)
    /\ \E n \in GroupLengths(s, p) : KeywordPositions(s, p + 5 + n) # {}

Max(S) ==
    CHOOSE x \in S : \A y \in S : y <= x

Min(S) ==
    CHOOSE x \in S : \A y \in S : x <= y

\* re.search('\d\d\d "([a-f0-9\-]+).* (unrouted|erouted);', line):
\* the leftmost match; the group and then `.*` take the longest text that
\* still lets the rest of the pattern match
re_search(line) ==
    IF \E p \in 1..Len(line) : MatchesAt(line, p)
    THEN LET p == Min({q \in 1..Len(line) : MatchesAt(line, q)})
             n == Max({m \in GroupLengths(line, p) :
                          KeywordPositions(line, p + 5 + m) # {}})
             k == Max(KeywordPositions(line, p + 5 + n))
         IN  [matched |-> TRUE,
              group1 |-> SubSeq(line, p + 5, p + 4 + n),
              group2 |-> CHOOSE kw \in DOMAIN STATUS_MAP :
                             KeywordAt(line, k, kw)]
    ELSE [matched |-> FALSE]

\* str.split('\n')
RECURSIVE split_lines(_)
split_lines(s) ==
    IF \E i \in 1..Len(s) : s[i] = "\n"
    THEN LET i == Min({j \in 1..Len(s) : s[j] = "\n"})
         IN  <<SubSeq(s, 1, i - 1)>> \o split_lines(SubSeq(s, i + 1, Len(s)))
    ELSE <<s>>

\* the body of the loop of _update_connection_status for one line
update_for_line(connection_status, line) ==
    LET m == re_search(line)
    IN  IF ~m.matched THEN connection_status
        ELSE LET connection_id == m.group1
                 status == m.group2
                 tracked ==
                     IF connection_id \in DOMAIN connection_status
                     THEN connection_status
                     ELSE (connection_id :>
                              [status |-> "None",
                               updated_pending_status |-> FALSE])
                          @@ connection_status
             IN  [tracked EXCEPT ![connection_id].status = STATUS_MAP[status]]

RECURSIVE update_for_lines(_, _)
update_for_lines(connection_status, lines) ==
    IF lines = <<>> THEN connection_status
    ELSE update_for_lines(update_for_line(connection_status, Head(lines)),
                          Tail(lines))

\* BaseSwanProcess._update_connection_status
_update_connection_status(connection_status, status_output) ==
    update_for_lines(connection_status, split_lines(status_output))

-----------------------------------------------------------------------------
(* Initial values of the variables another state machine owns.             *)

DialInit ==
    dl = [op |-> "none"]

\* no configuration is rendered and no lifecycle operation has run
LifeInit ==
    /\ config = {}
    /\ lc = [op |-> "none"]

\* the threads of the agent that can call sync
Threads == {"t1", "t2", "t3"}

SyncInit ==
    /\ lock = "free"
    /\ sync_pc = [t \in Threads |-> "idle"]
    /\ sync_done = [t \in Threads |-> 0]

ProcInit ==
    /\ processes = <<>>
    /\ process_status_cache = <<>>
    /\ daemon = <<>>
    /\ psr = [op |-> "none"]
    /\ sent = <<>>
    /\ rs = [op |-> "none"]
    /\ LifeInit
    /\ SyncInit

-----------------------------------------------------------------------------
(* Spec: the transactional provisioner.                                    *)

Init ==
    /\ ProvInit
    /\ DialInit
    /\ ProcInit

Create ==
    /\ \E conn_info \in Requests : create_ipsec_site_connection(conn_info)
    /\ UNCHANGED <<dl, procVars>>

CreateAction ==
    /\ \E status \in CreateStatuses : do_create_action(status)
    /\ UNCHANGED <<dl, procVars>>

Rollback ==
    /\ \E status \in DeleteStatuses : do_rollback(status)
    /\ UNCHANGED <<dl, procVars>>

Delete ==
    /\ \E conn_id \in ConnIds : delete_ipsec_site_connection(conn_id)
    /\ UNCHANGED <<dl, procVars>>

Next ==
    \/ Create
    \/ CreateAction
    \/ Rollback
    \/ Delete

Spec ==
    Init /\ [][Next]_vars

-----------------------------------------------------------------------------
(* Claims about the transactional provisioner, checked under Spec.         *)

\* a create or delete handler has returned
Returned_(op) ==
    /\ pc = "idle"
    /\ frame.op = op

\* every resource the appliance can hold for connection c
OwnedResources(c) ==
    {<<"pre_shared_key", c>>, <<"ike_policy", IkePolicyIdOf[c]>>,
     <<"ipsec_policy", IpsecPolicyIdOf[c]>>,
     <<"ipsec_connection", SiteConnIdOf[c]>>}
    \cup {<<"static_route", make_route_id(PeerCidr(c, i), SiteConnIdOf[c])>> :
          i \in 1..MaxPeerCidrs}

\* C1: when a create whose payloads were built returns, either every
\* resource of the connection exists on the appliance or none of the
\* resources this call created exists on it.
C1_Atomicity ==
    (Returned_("create") /\ outcome.result \in {"SUCCESS", "FAILED"})
        => \/ frame.want \subseteq appliance
           \/ frame.created \cap appliance = {}

\* C2: between calls, the connections map holds a step log for a connection
\* id if and only if that connection has resources on the appliance.
C2_LogIffProvisioned ==
    pc = "idle" =>
        \A c \in ConnIds :
            (c \in DOMAIN connections) <=>
                (OwnedResources(c) \cap appliance # {})

\* C3: a delete for a connection id that had no persisted step log issues
\* no remote call, does not raise, and leaves the connections map as it was.
C3_DeleteUnknownIsNoOp ==
    (frame.op = "delete" /\ frame.conn_id \notin DOMAIN frame.pre_connections)
        => /\ pc = "idle"
           /\ calls = <<>>
           /\ outcome.result = "NOT_FOUND"
           /\ connections = frame.pre_connections

\* C3 witness: a delete of an unknown id has returned while another
\* connection is persisted.
C3_Witness ==
    /\ Returned_("delete")
    /\ frame.conn_id \notin DOMAIN frame.pre_connections
    /\ DOMAIN connections # {}

\* C4: a delete that follows a completed delete of the same, successfully
\* created connection finds no persisted step log and issues no remote call.
C4_SecondDeleteIsNoOp ==
    (frame.op = "delete" /\ frame.repeat)
        => /\ steps = <<>>
           /\ calls = <<>>
           /\ outcome.result = "NOT_FOUND"

\* C5: a create whose payload building fails with an implementation error
\* or a validation failure returns without raising, has made no remote call
\* and no rollback, and leaves the step log and the connections map as
\* they were.
C5_BuildFailureIsNoOp ==
    (frame.op = "create" /\
     frame.build \in {"CsrDriverImplementationError", "CsrValidationFailure"})
        => /\ pc = "idle"
           /\ outcome.result = "BUILD_FAILED"
           /\ calls = <<>>
           /\ steps = frame.pre_steps
           /\ connections = frame.pre_connections

\* C5 witness: a create has failed validation while a step log and a
\* persisted connection were in place.
C5_Witness ==
    /\ Returned_("create")
    /\ frame.build = "CsrValidationFailure"
    /\ steps # <<>>
    /\ DOMAIN connections # {}

\* C17: when a create returns after a create call failed, the step log is
\* empty; when it returns after every create call was verified, the step
\* log is not empty and the connections map holds that log under the
\* connection id.
C17_StepLogAfterCreate ==
    Returned_("create") =>
        /\ outcome.result = "FAILED" => steps = <<>>
        /\ outcome.result = "SUCCESS" =>
              /\ steps # <<>>
              /\ frame.conn_id \in DOMAIN connections
              /\ connections[frame.conn_id] = steps

\* C17 witness: a create of a connection not yet persisted has succeeded
\* in a run in which an earlier create call failed.
C17_Witness ==
    /\ Returned_("create")
    /\ outcome.result = "SUCCESS"
    /\ faults > 0
    /\ frame.conn_id \notin DOMAIN frame.pre_connections

\* the create calls issued so far by the running or returned handler
CreateCalls ==
    SelectSeq(calls, LAMBDA c : c.op = "create")

\* the peer CIDR a static-route call is made for
CidrOfCall(c) ==
    IF "destination_network" \in DOMAIN c.arg
    THEN c.arg.destination_network
    ELSE c.arg.rid_cidr

\* the resources of a connection in dependency order
CreateOrder ==
    <<"pre_shared_key", "ike_policy", "ipsec_policy", "ipsec_connection">>

\* C20: the create calls of a create are issued in the order pre-shared key,
\* IKE policy, IPsec policy, tunnel connection, then one static route per
\* peer CIDR in list order, and a call is issued only after every earlier
\* one was answered with "created".
C20_CreateOrder ==
    frame.op = "create" =>
        \A i \in 1..Len(CreateCalls) :
            /\ i <= 4 => CreateCalls[i].action = CreateOrder[i]
            /\ i > 4 =>
                  /\ CreateCalls[i].action = "static_route"
                  /\ CidrOfCall(CreateCalls[i]) =
                        PeerCidr(frame.conn_id, i - 4)
            /\ i < Len(CreateCalls) => CreateCalls[i].status = HTTPCreated

\* C20 witness: a create has issued all its calls, two static routes among
\* them.
C20_Witness ==
    /\ Returned_("create")
    /\ outcome.result = "SUCCESS"
    /\ Len(CreateCalls) = 6

\* the positions of the create calls that were not answered "created"
FailedCreates ==
    {i \in 1..Len(calls) :
        calls[i].op = "create" /\ calls[i].status # HTTPCreated}

\* the delete calls issued so far by the running or returned handler
DeleteCalls ==
    SelectSeq(calls, LAMBDA c : c.op = "delete")

\* C21: after the first create call that is not answered "created" the
\* handler issues no further create call; it deletes, last created first,
\* what the earlier calls of this create made, returns FAILED, and leaves
\* the connections map as it found it.
C21_FailedCreateRollsBack ==
    (frame.op = "create" /\ FailedCreates # {}) =>
        LET i == Min(FailedCreates)
        IN  /\ \A j \in 1..Len(calls) :
                  /\ j < i => /\ calls[j].op = "create"
                              /\ calls[j].status = HTTPCreated
                  /\ j > i => /\ calls[j].op = "delete"
                              /\ j <= 2 * i - 1
                              /\ calls[j].action = calls[2 * i - j].action
            /\ pc \in {"rollback", "idle"}
            /\ pc = "idle" => /\ Len(calls) = 2 * i - 1
                              /\ outcome.result = "FAILED"
            /\ connections = frame.pre_connections

\* C21 witness: a create has returned after its third or a later create
\* call timed out.
C21_Witness ==
    /\ Returned_("create")
    /\ FailedCreates # {}
    /\ Min(FailedCreates) >= 3
    /\ calls[Min(FailedCreates)].status = 408

\* C22: rollback issues one delete call per step of the step log, last
\* step first, with the action and the resource id of the step; an answer
\* of "no content" or "not found" is logged as a removal and any other
\* answer as a warning, the loop goes on after it, and the step log is empty
\* when the loop is over.
C22_RollbackReverseOrder ==
    LET n == Len(DeleteCalls)
    IN  /\ \A k \in 1..n :
              DeleteCalls[k].log =
                  IF DeleteCalls[k].status \in {HTTPNoContent, HTTPNotFound}
                  THEN "debug" ELSE "warning"
        /\ pc = "rollback" =>
              /\ n = Len(steps) - frame.idx
              /\ \A k \in 1..n :
                    /\ DeleteCalls[k].action = steps[Len(steps) + 1 - k].action
                    /\ DeleteCalls[k].arg =
                           steps[Len(steps) + 1 - k].resource_id
        /\ (pc = "idle" /\ n > 0) =>
              /\ steps = <<>>
              /\ LET log == IF frame.op = "delete"
                            THEN frame.pre_connections[frame.conn_id]
                            ELSE SelectSeq(CreateCalls,
                                     LAMBDA c : c.status = HTTPCreated)
                 IN  /\ n = Len(log)
                     /\ \A k \in 1..n :
                           DeleteCalls[k].action = log[n + 1 - k].action

\* C22 witness: a rollback of three or more steps is over whose first delete
\* was refused and whose last delete found nothing to remove.
C22_Witness ==
    /\ pc = "idle"
    /\ Len(DeleteCalls) >= 3
    /\ DeleteCalls[1].status = 405
    /\ DeleteCalls[Len(DeleteCalls)].status = HTTPNotFound

\* C23: after a create that ended in rollback the connections map holds no
\* step log for the connection id of the call.
C23_NoLogAfterRollback ==
    (Returned_("create") /\ outcome.result = "FAILED")
        => frame.conn_id \notin DOMAIN connections

\* C24: a delete of a connection with a persisted step log issues one delete
\* call per step of that log, last step first, and completes without
\* raising whatever the delete calls answer.
C24_DeleteBestEffort ==
    (frame.op = "delete" /\ frame.conn_id \in DOMAIN frame.pre_connections) =>
        LET log == frame.pre_connections[frame.conn_id]
            n == Len(DeleteCalls)
        IN  /\ n <= Len(log)
            /\ \A k \in 1..n :
                  /\ DeleteCalls[k].action = log[Len(log) + 1 - k].action
                  /\ DeleteCalls[k].arg = log[Len(log) + 1 - k].resource_id
            /\ pc = "idle" => /\ n = Len(log)
                              /\ outcome.result = "COMPLETED"
                              /\ outcome.error = "none"

\* C24 witness: a delete has completed although the appliance refused as
\* many of its delete calls as it may fail, the first one among them.
C24_Witness ==
    /\ Returned_("delete")
    /\ outcome.result = "COMPLETED"
    /\ DeleteCalls # <<>>
    /\ DeleteCalls[1].status = 405
    /\ Cardinality({k \in 1..Len(DeleteCalls) :
                       DeleteCalls[k].status = 405}) = MaxFaults

\* SpecFair: the provisioner whose running handler goes on: every remote
\* call of the synchronous REST client is answered (with its status, or
\* with the status of a timed-out request), so the next create call and
\* the next iteration of the rollback loop are eventually taken.
SpecFair ==
    Spec /\ WF_vars(CreateAction) /\ WF_vars(Rollback)

\* the calls of a sequence are for pairwise different resources
DistinctResources(cs) ==
    \A i, j \in 1..Len(cs) :
        (cs[i].action = cs[j].action /\ cs[i].arg = cs[j].arg) => i = j

\* C30 (while it runs and when it returns): a create whose payloads were
\* built issues at most one create call per resource and at most one delete
\* call per resource it created, does not return before these calls are
\* over, and returns either SUCCESS with every resource created and the log
\* persisted, or FAILED with the rollback run and the step log empty.
C30_CreateOutcomes ==
    (frame.op = "create" /\ frame.build = "none") =>
        LET created == SelectSeq(CreateCalls,
                           LAMBDA c : c.status = HTTPCreated)
        IN  /\ DistinctResources(CreateCalls)
            /\ DistinctResources(DeleteCalls)
            /\ Len(CreateCalls) <= Cardinality(frame.want)
            /\ Len(DeleteCalls) <= Len(created)
            /\ pc # "idle" => outcome.result = "running"
            /\ pc = "idle" =>
                  \/ /\ outcome.result = "SUCCESS"
                     /\ Len(created) = Cardinality(frame.want)
                     /\ DeleteCalls = <<>>
                     /\ steps # <<>>
                     /\ connections[frame.conn_id] = steps
                  \/ /\ outcome.result = "FAILED"
                     /\ Len(CreateCalls) = Len(created) + 1
                     /\ Len(DeleteCalls) = Len(created)
                     /\ steps = <<>>

VerifiedCreates ==
    SelectSeq(CreateCalls, LAMBDA c : c.status = HTTPCreated)

\* the step log lists the verified create actions, one step per call, in
\* the order of the calls
LogListsVerified ==
    /\ Len(steps) = Len(VerifiedCreates)
    /\ \A i \in 1..Len(steps) :
          /\ steps[i].action = VerifiedCreates[i].action
          /\ i <= 4 => steps[i].action = CreateOrder[i]
          /\ i > 4 => steps[i].action = "static_route"

\* the number of peer CIDRs of the request the handler was entered with
PeerCidrCount ==
    Cardinality({w \in frame.want : w[1] = "static_route"})

\* C31 as stated: at every point of a create whose payloads were built, its
\* return included, the step log lists exactly the create actions verified
\* so far.
C31_LogListsVerifiedAlways ==
    (frame.op = "create" /\ frame.build = "none") => LogListsVerified

\* the step log of a create, state by state: it lists the verified creates
\* until the rollback is over, is empty once a rollback is over, and is
\* persisted with 4 + (number of peer CIDRs) steps on success
C31_LogState ==
    (frame.op = "create" /\ frame.build = "none") =>
        /\ pc # "idle" => LogListsVerified
        /\ (pc = "idle" /\ outcome.result = "SUCCESS") =>
              /\ LogListsVerified
              /\ connections[frame.conn_id] = steps
              /\ Len(connections[frame.conn_id]) = 4 + PeerCidrCount
        /\ (pc = "idle" /\ outcome.result = "FAILED") => steps = <<>>
        /\ \A j \in 1..Len(CreateCalls) :
              CreateCalls[j].status # HTTPCreated =>
                  /\ Len(steps) < j
                  /\ \A k \in 1..(j - 1) :
                        ~ /\ CreateCalls[k].action = CreateCalls[j].action
                          /\ CreateCalls[k].arg = CreateCalls[j].arg

\* a step of a create: the log is left alone or grows at its end by the one
\* step of a create call that was answered "created"
C31_LogStep ==
    pc = "create" =>
        \/ steps' = steps
        \/ /\ Len(steps') = Len(steps) + 1
           /\ SubSeq(steps', 1, Len(steps)) = steps
           /\ calls'[Len(calls')].op = "create"
           /\ calls'[Len(calls')].status = HTTPCreated
           /\ steps'[Len(steps')].action = calls'[Len(calls')].action

\* C31 (until the rollback is over): during a create the step log is
\* append-only and lists exactly the create actions verified so far, in
\* creation order; a step is appended only after its create was verified,
\* the failing resource is never in the log, a log persisted on success has
\* 4 + (number of peer CIDRs) steps, and the log is empty once a rollback
\* is over.
C31_StepLogAppendOnly ==
    /\ []C31_LogState
    /\ [][C31_LogStep]_vars

\* C31 witness: a create has returned FAILED after five of its creates were
\* verified and the second static route timed out.
C31_Witness ==
    /\ Returned_("create")
    /\ outcome.result = "FAILED"
    /\ Len(VerifiedCreates) = 5
    /\ Len(CreateCalls) = 6
    /\ steps = <<>>

\* the route ids make_route_id computes for the peer CIDRs of a connection
RouteIds ==
    {make_route_id(PeerCidr(c, k), SiteConnIdOf[c]) :
        c \in ConnIds, k \in 1..MaxPeerCidrs}

\* C32: for each static route the create call receives the route payload,
\* the step records the route id make_route_id computes for the peer CIDR,
\* and rollback and delete call delete_static_route with that route id.
C32_StepRecordsRouteId ==
    /\ \A i \in 1..Len(calls) :
          calls[i].action = "static_route" =>
              IF calls[i].op = "create"
              THEN "destination_network" \in DOMAIN calls[i].arg
              ELSE calls[i].arg \in RouteIds
    /\ \A i \in 1..Len(steps) :
          steps[i].action = "static_route" =>
              steps[i].resource_id \in RouteIds
    /\ \A c \in DOMAIN connections :
          \A i \in 1..Len(connections[c]) :
              connections[c][i].action = "static_route" =>
                  connections[c][i].resource_id \in RouteIds

\* C33: a create or a delete for one connection id leaves the persisted
\* step log of every other connection id as it was on entry, and issues no
\* delete call for a resource recorded in the log of another id.
C33_OtherLogsUntouched ==
    \A b \in DOMAIN frame.pre_connections :
        b # frame.conn_id =>
            /\ b \in DOMAIN connections
            /\ connections[b] = frame.pre_connections[b]
            /\ \A k \in 1..Len(DeleteCalls) :
                  \A i \in 1..Len(connections[b]) :
                      ~ /\ connections[b][i].action = DeleteCalls[k].action
                        /\ connections[b][i].resource_id = DeleteCalls[k].arg


-----------------------------------------------------------------------------
(* SpecDialect: translate_dialect and validate_lifetime applied to         *)
(* bounded inputs.                                                         *)

\* lifetimes within LifetimeSlack of a boundary of either range are tried
LifetimeSlack == 2

DialectAttributes ==
    {"ike_version", "encryption_algorithm", "auth_algorithm", "pfs",
     "transform_protocol"}

\* attribute values as the orchestrator may send them: every key of the two
\* tables, capitalised spellings, and unsupported values
RawValues ==
    {s_name, s_v1, s_sha1, s_3des, s_aes128, s_aes192, s_aes256, s_group2,
     s_group5, s_group14, s_esp, s_ah, s_ah_esp,
     s_AES128, s_Sha1, s_V1, s_3DES, s_Group5, s_ESP, s_NAME,
     s_v2, s_md5, s_des, s_empty}

LifetimeValues ==
    {0, 3600}
    \cup UNION {(b - LifetimeSlack)..(b + LifetimeSlack) :
                b \in {60, 86400, 120, 2592000}}

LifetimeInfos ==
    {[units |-> u, value |-> v] :
        u \in {"seconds", "minutes", "Seconds"}, v \in LifetimeValues}
    \cup {[units |-> u] : u \in {"seconds", "minutes"}}
    \cup {[value |-> v] : v \in {0, 3600}}

\* policy dicts handed to validate_lifetime
LifetimePolicies ==
    {With(GoodIke, "lifetime", l) : l \in LifetimeInfos}
    \cup {Without(GoodIke, "lifetime")}

TranslateDialect ==
    /\ \E resource \in Resources, attribute \in DialectAttributes,
          present \in BOOLEAN, raw \in RawValues :
          LET base == IF resource = "ike_policy" THEN GoodIke ELSE GoodIpsec
              info == IF present THEN With(base, attribute, raw)
                      ELSE Without(base, attribute)
          IN  dl' = [op |-> "translate_dialect", resource |-> resource,
                     attribute |-> attribute, info |-> info,
                     result |-> translate_dialect(resource, attribute, info)]
    /\ UNCHANGED <<provVars, procVars>>

ValidateLifetime ==
    /\ \E resource \in Resources, policy_info \in LifetimePolicies :
          dl' = [op |-> "validate_lifetime", resource |-> resource,
                 info |-> policy_info,
                 result |-> validate_lifetime(resource, policy_info)]
    /\ UNCHANGED <<provVars, procVars>>

NextDialect ==
    \/ TranslateDialect
    \/ ValidateLifetime

SpecDialect ==
    Init /\ [][NextDialect]_vars

\* C6: translate_dialect raises the implementation error exactly when the
\* attribute is absent from info, the validation failure exactly when it is
\* present and its lower-cased value is no entry of the resource's table,
\* and otherwise returns the table's value for the lower-cased input.
C6_TranslateOutcomes ==
    dl.op = "translate_dialect" =>
        LET r == dl.result
            present == dl.attribute \in DOMAIN dl.info
            table == DIALECT_MAP[dl.resource]
        IN  /\ r.raised \in {"none", "CsrDriverImplementationError",
                             "CsrValidationFailure"}
            /\ (r.raised = "CsrDriverImplementationError") <=> ~present
            /\ (r.raised = "CsrValidationFailure") <=>
                   (present /\ Lower(dl.info[dl.attribute]) \notin DOMAIN table)
            /\ (r.raised = "none") =>
                   r.value = table[Lower(dl.info[dl.attribute])]

\* C6 witness: a capitalised value was translated.
C6_Witness ==
    /\ dl.op = "translate_dialect"
    /\ dl.result.raised = "none"
    /\ dl.info[dl.attribute] # Lower(dl.info[dl.attribute])

\* the closed ranges the claim states
C7Range ==
    [ike_policy |-> [lo |-> 60, hi |-> 86400],
     ipsec_policy |-> [lo |-> 120, hi |-> 2592000]]

\* C7: for a policy that carries lifetime units and value, validate_lifetime
\* returns the value unchanged if and only if units is 'seconds' and the
\* value lies in the closed range of the resource kind; every other unit or
\* value raises the validation failure.
C7_LifetimeRange ==
    (/\ dl.op = "validate_lifetime"
     /\ "lifetime" \in DOMAIN dl.info
     /\ DOMAIN dl.info["lifetime"] = {"units", "value"})
        => LET r == dl.result
               l == dl.info["lifetime"]
               valid == /\ l["units"] = "seconds"
                        /\ C7Range[dl.resource].lo <= l["value"]
                        /\ l["value"] <= C7Range[dl.resource].hi
           IN  /\ valid => (r.raised = "none" /\ r.value = l["value"])
               /\ ~valid => r.raised = "CsrValidationFailure"

\* C7 witness: the lower boundary of the IKE range was accepted.
C7_Witness ==
    /\ dl.op = "validate_lifetime"
    /\ dl.resource = "ike_policy"
    /\ dl.result.raised = "none"
    /\ dl.result.value = 60

\* C34: translate_dialect returns a value only for a supported value of the
\* requested attribute; a value of another attribute of the same resource
\* kind and the key 'name' raise the validation failure, and the display
\* name of the resource kind is never returned.
C34_ScopedToAttribute ==
    (dl.op = "translate_dialect" /\ dl.attribute \in DOMAIN dl.info) =>
        LET r == dl.result
            value == Lower(dl.info[dl.attribute])
        IN  /\ r.raised = "none" =>
                  /\ value \in SupportedValues[dl.resource][dl.attribute]
                  /\ r.value \notin {"IKE Policy", "IPSec Policy"}
            /\ value \notin SupportedValues[dl.resource][dl.attribute] =>
                  r.raised = "CsrValidationFailure"

-----------------------------------------------------------------------------
(* SpecParse: _update_connection_status applied once to a process whose    *)
(* tracked map and status text are drawn from bounded sets.                *)

\* a status text has at most MaxLines lines
MaxLines == 2

id_conn1 == <<"c","o","n","n","-","1">>

id_ab1 == <<"a","b","-","1">>

id_c == <<"c">>

id_xy1 == <<"x","y","-","1">>

\* the parts a status line is put together from: what precedes the
\* identifier, the identifier, and what follows its closing quote
LinePrefix ==
    [d3q |-> <<"0","0","5"," ","\"">>,
     d2q |-> <<"0","5"," ","\"">>,
     d3 |-> <<"0","0","5"," ">>]

LineSuffix ==
    [erouted |-> <<" ">> \o kw_erouted \o <<";">>,
     unrouted |-> <<" ">> \o kw_unrouted \o <<";">>,
     both |-> <<":"," ">> \o kw_unrouted \o <<";"," ">> \o kw_erouted
              \o <<";"," ","x">>,
     routed |-> <<" ","r","o","u","t","e","d",";">>,
     nosemi |-> <<" ">> \o kw_erouted]

LineDescs ==
    {[pre |-> "d3q", id |-> i, kw |-> k] :
        i \in {id_conn1, id_ab1, id_c, id_xy1},
        k \in {"erouted", "unrouted", "both", "routed", "nosemi"}}
    \cup {[pre |-> q, id |-> id_ab1, kw |-> "erouted"] : q \in {"d2q", "d3"}}
    \cup {[pre |-> "empty", id |-> <<>>, kw |-> "none"]}

\* the text of one line
RenderLine(d) ==
    IF d.pre = "empty" THEN <<>>
    ELSE LinePrefix[d.pre] \o d.id
         \o (IF d.pre = "d3" THEN <<>> ELSE <<"\"">>)
         \o LineSuffix[d.kw]

\* the lines joined by newlines: the output of `ipsec whack --status`
RECURSIVE RenderText(_)
RenderText(ds) ==
    IF ds = <<>> THEN <<>>
    ELSE IF Len(ds) = 1 THEN RenderLine(ds[1])
    ELSE RenderLine(ds[1]) \o <<"\n">> \o RenderText(Tail(ds))

StatusTexts ==
    UNION {[1..n -> LineDescs] : n \in 0..MaxLines}

\* the vpnservice dict the orchestrator holds for a router
Service(process_id) ==
    [id |-> "vpn-" \o process_id, router_id |-> process_id,
     admin_state_up |-> TRUE, status |-> "PENDING_CREATE",
     ipsec_site_connections |->
        <<[id |-> id_ab1, initiator |-> "bi-directional",
           status |-> "PENDING_CREATE"]>>]

\* a translation that leaves the initiator as the orchestrator wrote it
initiator_dialect_as_given(value) ==
    value

\* BaseSwanProcess._dialect for the initiator of a connection
\* (DIALECT_MAP, lines 135-148)
initiator_dialect(value) ==
    CASE value = "bi-directional" -> "start"
      [] value = "response-only" -> "add"
      [] OTHER -> value

\* BaseSwanProcess.translate_dialect (lines 164-174), as far as the
\* lifecycle reads its result
process_translate_dialect(vpnservice) ==
    [vpnservice EXCEPT !.ipsec_site_connections =
        [i \in 1..Len(@) |->
            [@[i] EXCEPT !.initiator = initiator_dialect(@)]]]

\* BaseSwanProcess.__init__ (lines 150-162)
NewProcess(process_id, vpnservice, namespace) ==
    [id |-> process_id, vpnservice |-> process_translate_dialect(vpnservice),
     namespace |-> namespace,
     updated_pending_status |-> FALSE, connection_status |-> <<>>]

\* tracked maps earlier polls and update() calls leave behind
TrackedMaps ==
    {<<>>,
     (id_ab1 :> [status |-> constants_ACTIVE,
                 updated_pending_status |-> TRUE]),
     (id_c :> [status |-> constants_DOWN, updated_pending_status |-> FALSE])
        @@ (id_ab1 :> [status |-> constants_DOWN,
                       updated_pending_status |-> FALSE])}

InitParse ==
    /\ ProvInit
    /\ DialInit
    /\ \E m \in TrackedMaps :
          processes = ("p1" :> [NewProcess("p1", Service("p1"), "qrouter-p1")
                                  EXCEPT !.connection_status = m])
    /\ process_status_cache = <<>>
    /\ daemon = <<>>
    /\ psr = [op |-> "none"]
    /\ sent = <<>>
    /\ rs = [op |-> "none"]
    /\ LifeInit
    /\ SyncInit

UpdateConnectionStatus ==
    /\ psr.op = "none"
    /\ \E pid \in DOMAIN processes, ds \in StatusTexts :
          /\ processes' =
                [processes EXCEPT ![pid].connection_status =
                    _update_connection_status(@, RenderText(ds))]
          /\ psr' = [op |-> "parse", pid |-> pid, lines |-> ds,
                     before |-> processes[pid].connection_status]
    /\ UNCHANGED <<provVars, dl, process_status_cache, daemon, sent, rs,
                 lifeVars, syncVars>>

NextParse ==
    UpdateConnectionStatus

SpecParse ==
    InitParse /\ [][NextParse]_vars

\* the grammar of a status line: three digits, a quoted identifier, and a
\* state keyword followed by a semicolon
WellFormed(d) ==
    /\ d.pre = "d3q"
    /\ d.kw \in {"erouted", "unrouted", "both"}

\* the longest leading run of characters a-f, 0-9, '-' of an identifier
LeadingRun(id) ==
    LET hex == {"a","b","c","d","e","f","-",
                "0","1","2","3","4","5","6","7","8","9"}
        ns == {n \in 0..Len(id) : \A i \in 1..n : id[i] \in hex}
    IN  SubSeq(id, 1, Max(ns))

\* the line matches the pattern of the parser
PatternMatches(d) ==
    /\ WellFormed(d)
    /\ LeadingRun(d.id) # <<>>

\* the status the last state keyword of a line stands for
LineStatus(d) ==
    IF d.kw = "unrouted" THEN "DOWN" ELSE "ACTIVE"

\* C8: after a parse, every connection named by a matching line has the
\* status of the keyword of the last such line (erouted ACTIVE, unrouted
\* DOWN); a connection that no matching line names is as it was before,
\* so lines that do not match change nothing.
C8_KeywordTable ==
    psr.op = "parse" =>
        LET after == processes[psr.pid].connection_status
            before == psr.before
            ds == psr.lines
            named == {LeadingRun(ds[i].id) :
                        i \in {j \in 1..Len(ds) : PatternMatches(ds[j])}}
        IN  \A key \in DOMAIN after \cup DOMAIN before \cup named :
                LET idxs == {i \in 1..Len(ds) :
                                /\ PatternMatches(ds[i])
                                /\ LeadingRun(ds[i].id) = key}
                IN  IF idxs = {}
                    THEN /\ key \in DOMAIN after <=> key \in DOMAIN before
                         /\ key \in DOMAIN after => after[key] = before[key]
                    ELSE /\ key \in DOMAIN after
                         /\ after[key].status = LineStatus(ds[Max(idxs)])

\* C8 witness: a text whose two matching lines name the same tracked
\* connection with different keywords was parsed.
C8_Witness ==
    /\ psr.op = "parse"
    /\ \E i, j \in 1..Len(psr.lines) :
          /\ i < j
          /\ PatternMatches(psr.lines[i]) /\ PatternMatches(psr.lines[j])
          /\ psr.lines[i].id = psr.lines[j].id
          /\ LineStatus(psr.lines[i]) # LineStatus(psr.lines[j])
          /\ LeadingRun(psr.lines[i].id) \in DOMAIN psr.before

\* C9: after a parse, for every well-formed line the complete quoted identifier
\* is a key of the tracked map.
C9_CompleteIdRecorded ==
    psr.op = "parse" =>
        \A i \in 1..Len(psr.lines) :
            WellFormed(psr.lines[i]) =>
                psr.lines[i].id \in DOMAIN processes[psr.pid].connection_status

-----------------------------------------------------------------------------
(* SpecRecon: the process map of OpenSwanDriver, the daemons behind the    *)
(* processes, and the reconciliation pass.                                 *)

ProcessIds == {"p1", "p2"}

\* what `ipsec whack --status` can answer for a router: the daemon is not
\* running (the command fails), or it lists its connections
DaemonStates ==
    {[running |-> FALSE, lines |-> <<>>],
     [running |-> TRUE, lines |-> <<>>],
     [running |-> TRUE,
      lines |-> <<[pre |-> "d3q", id |-> id_ab1, kw |-> "erouted"]>>],
     [running |-> TRUE,
      lines |-> <<[pre |-> "d3q", id |-> id_ab1, kw |-> "unrouted"],
                  [pre |-> "d3q", id |-> id_conn1, kw |-> "erouted"]>>]}

\* the answers of agent.get_namespace: the router has no namespace yet, or
\* it has one
Namespaces(process_id) ==
    {"", "qrouter-" \o process_id}

\* a status command that answers although the daemon does not run
get_status_always_answers(d) ==
    Returned(RenderText(d.lines))

\* OpenSwanProcess.get_status: the command runs in the namespace of the
\* process and raises RuntimeError when it fails
get_status_from(d) ==
    IF d.running
    THEN Returned(RenderText(d.lines))
    ELSE [raised |-> "RuntimeError"]

get_status(process) ==
    get_status_from(daemon[process.id])

\* BaseSwanProcess.active: the value of the property and the process after
\* the poll
active_with(process, d) ==
    IF Falsy(process.namespace)
    THEN [result |-> FALSE, process |-> process]
    ELSE LET polled == get_status_from(d)
         IN  IF polled.raised # "none"
             THEN [result |-> FALSE, process |-> process]
             ELSE [result |-> TRUE,
                   process |->
                       [process EXCEPT !.connection_status =
                           _update_connection_status(@, polled.value)]]

process_active(process) ==
    active_with(process, daemon[process.id])

\* BaseSwanProcess.status
process_status(process) ==
    LET polled == process_active(process)
    IN  [result |-> IF polled.result THEN constants_ACTIVE
                    ELSE constants_DOWN,
         process |-> polled.process]

\* OpenSwanDriver.create_process
create_process(process_id, vpnservice, namespace) ==
    NewProcess(process_id, vpnservice, namespace)

\* CiscoCsrIPsecDriver.ensure_process
ensure_process(process_id, vpnservice, namespace) ==
    IF \/ process_id \notin DOMAIN processes
       \/ Falsy(processes[process_id].namespace)
    THEN (process_id :> create_process(process_id, vpnservice, namespace))
         @@ processes
    ELSE processes

\* CiscoCsrIPsecDriver.get_process_status_cache: the snapshot a process is
\* compared with
get_process_status_cache(process) ==
    IF process.id \in DOMAIN process_status_cache
    THEN process_status_cache[process.id]
    ELSE [status |-> "None", id |-> process.vpnservice.id,
          updated_pending_status |-> FALSE,
          ipsec_site_connections |-> <<>>]

\* CiscoCsrIPsecDriver.is_status_updated
is_status_updated(process, previous_status) ==
    LET polled == process_status(process)
    IN  \/ process.updated_pending_status
        \/ polled.result # previous_status.status
        \/ polled.process.connection_status #
               previous_status.ipsec_site_connections

\* CiscoCsrIPsecDriver.report_status: the handler returns before its loop
report_status ==
    /\ rs' = [op |-> "report", sent_before |-> sent]
    /\ UNCHANGED <<processes, process_status_cache, sent>>

InitRecon ==
    /\ ProvInit
    /\ DialInit
    /\ processes = <<>>
    /\ process_status_cache = <<>>
    /\ daemon = [p \in ProcessIds |-> [running |-> FALSE, lines |-> <<>>]]
    /\ psr = [op |-> "none"]
    /\ sent = <<>>
    /\ rs = [op |-> "none"]
    /\ LifeInit
    /\ SyncInit

EnsureProcess ==
    /\ \E process_id \in ProcessIds :
       \E namespace \in Namespaces(process_id) :
          /\ processes' =
                ensure_process(process_id, Service(process_id), namespace)
          /\ rs' = [op |-> "ensure", pid |-> process_id]
    /\ UNCHANGED <<provVars, dl, process_status_cache, daemon, psr, sent,
                 lifeVars, syncVars>>

DaemonStep ==
    /\ \E process_id \in ProcessIds, d \in DaemonStates :
          /\ d # daemon[process_id]
          /\ daemon' = [daemon EXCEPT ![process_id] = d]
          /\ rs' = [op |-> "daemon", pid |-> process_id]
    /\ UNCHANGED <<provVars, dl, processes, process_status_cache, psr, sent,
                 lifeVars, syncVars>>

ReadStatus ==
    /\ \E process_id \in DOMAIN processes :
          LET polled == process_status(processes[process_id])
          IN  /\ processes' =
                    [processes EXCEPT ![process_id] = polled.process]
              /\ rs' = [op |-> "status", pid |-> process_id,
                        result |-> polled.result]
    /\ UNCHANGED <<provVars, dl, process_status_cache, daemon, psr, sent,
                 lifeVars, syncVars>>

ReportStatus ==
    /\ report_status
    /\ UNCHANGED <<provVars, dl, daemon, psr, lifeVars, syncVars>>

\* CiscoCsrIPsecDriver.destroy_router: the handler returns before it looks
\* at the process map
destroy_router(process_id) ==
    /\ rs' = [op |-> "destroy", pid |-> process_id]
    /\ UNCHANGED <<processes, process_status_cache, sent>>

DestroyRouter ==
    /\ \E process_id \in ProcessIds : destroy_router(process_id)
    /\ UNCHANGED <<provVars, dl, daemon, psr, lifeVars, syncVars>>

NextRecon ==
    \/ EnsureProcess
    \/ DaemonStep
    \/ ReadStatus
    \/ ReportStatus
    \/ DestroyRouter

SpecRecon ==
    InitRecon /\ [][NextRecon]_vars

\* the tracked processes a reconciliation pass detects as changed
ChangedProcesses ==
    {process_id \in DOMAIN processes :
        is_status_updated(processes[process_id],
                          get_process_status_cache(processes[process_id]))}

\* C10: a reconciliation pass sends one batch that holds exactly the tracked
\* processes detected as changed, and sends nothing when none is.
C10_ReportsChangedSubset ==
    rs.op = "report" =>
        IF ChangedProcesses = {}
        THEN sent = rs.sent_before
        ELSE /\ Len(sent) = Len(rs.sent_before) + 1
             /\ {sent[Len(sent)][i].id : i \in 1..Len(sent[Len(sent)])} =
                    {processes[p].vpnservice.id : p \in ChangedProcesses}

\* the daemon of a process reports a connection as erouted: it answers the
\* status command and the last line it lists for the connection says so
ReportsErouted(process_id, key) ==
    /\ daemon[process_id].running
    /\ LET ds == daemon[process_id].lines
           idxs == {i \in 1..Len(ds) :
                       /\ PatternMatches(ds[i])
                       /\ LeadingRun(ds[i].id) = key}
       IN  /\ idxs # {}
           /\ LineStatus(ds[Max(idxs)]) = "ACTIVE"

\* C16: after a status poll of a process, a tracked connection is cached as
\* ACTIVE only if the daemon reports it as erouted; a connection the daemon
\* does not report, or one of a process whose poll fails, is not ACTIVE.
C16_ActiveOnlyIfErouted ==
    rs.op = "status" =>
        \A key \in DOMAIN processes[rs.pid].connection_status :
            processes[rs.pid].connection_status[key].status = "ACTIVE"
                => ReportsErouted(rs.pid, key)

\* C18: ensure_process leaves a Process in the map for the id it was called
\* with, and after destroy_router(process_id) the map holds no Process for
\* process_id.
C18_ProcessLifecycle ==
    /\ rs.op = "ensure" => rs.pid \in DOMAIN processes
    /\ rs.op = "destroy" => rs.pid \notin DOMAIN processes

\* C27: every read of the status of a process polls the daemon: the read
\* gives ACTIVE if and only if the process has a namespace and the status
\* command succeeds, DOWN otherwise, and a failing status command does not
\* make the read raise.
C27_StatusIsPolled ==
    rs.op = "status" =>
        rs.result = IF /\ ~Falsy(processes[rs.pid].namespace)
                       /\ daemon[rs.pid].running
                    THEN "ACTIVE" ELSE "DOWN"

\* C27 witness: a read gives DOWN for a process with a namespace whose
\* daemon has stopped after an earlier read found it running.
C27_Witness ==
    /\ rs.op = "status"
    /\ rs.result = "DOWN"
    /\ ~Falsy(processes[rs.pid].namespace)
    /\ processes[rs.pid].connection_status # <<>>

-----------------------------------------------------------------------------
(* Process lifecycle: OpenSwanProcess.enable, disable, start, stop,        *)
(* restart, disconnect and BaseSwanProcess.update (lines 236-278,          *)
(* 351-458). A method takes the state it runs in (the process, its daemon, *)
(* whether its configuration is rendered, the commands run so far and the  *)
(* exception in flight) to the state it leaves; a statement reached with   *)
(* an exception in flight is skipped.                                      *)

\* the steps of a method that can fail, and the exception each raises:
\* a command run by _execute raises RuntimeError; writing the configuration
\* fails with RuntimeError or with the OSError of the file system
FailureKinds ==
    [configs |-> "RuntimeError", configs_oserror |-> "OSError",
     pluto |-> "RuntimeError", terminate |-> "RuntimeError",
     shutdown |-> "RuntimeError"]

\* the failures one call meets: none, or every run of one step
FailureSets ==
    {{}} \cup {{f} : f \in DOMAIN FailureKinds}

Cmd(name, arg) ==
    [name |-> name, arg |-> arg]

\* the element of a one-element set; Only({e(x) : x \in {v}}) names the
\* value of v as x in e, so that v is computed once
Only(S) ==
    CHOOSE r \in S : TRUE

\* the daemon after a command succeeded: pluto starts it, the shutdown
\* stops it
DaemonAfter(d, cmd) ==
    CASE cmd.name = "pluto" -> [running |-> TRUE, lines |-> <<>>]
      [] cmd.name = "shutdown" -> [running |-> FALSE, lines |-> <<>>]
      [] OTHER -> d

\* OpenSwanProcess._execute (lines 328-333)
_execute(st0, cmd, check_exit_code, fails) ==
    Only({IF st.raised # "none" THEN st
          ELSE IF cmd.name \in fails
          THEN [st EXCEPT !.log = Append(@, cmd),
                          !.raised = IF check_exit_code
                                     THEN FailureKinds[cmd.name]
                                     ELSE "none"]
          ELSE [st EXCEPT !.log = Append(@, cmd),
                          !.dmn = DaemonAfter(@, cmd)] : st \in {st0}})

\* OpenSwanProcess.ensure_configs (lines 335-349)
ensure_configs(st0, fails) ==
    Only({IF st.raised # "none" THEN st
          ELSE IF "configs" \in fails
          THEN [st EXCEPT !.log = Append(@, Cmd("configs", "none")),
                          !.raised = FailureKinds["configs"]]
          ELSE IF "configs_oserror" \in fails
          THEN [st EXCEPT !.log = Append(@, Cmd("configs", "none")),
                          !.raised = FailureKinds["configs_oserror"]]
          ELSE [st EXCEPT !.log = Append(@, Cmd("configs", "none")),
                          !.cfg = TRUE] : st \in {st0}})

\* BaseSwanProcess.remove_config (lines 189-191): rmtree ignores errors
remove_config(st0) ==
    Only({IF st.raised # "none" THEN st
          ELSE [st EXCEPT !.log = Append(@, Cmd("rmtree", "none")),
                          !.cfg = FALSE] : st \in {st0}})

\* the property BaseSwanProcess.active read inside a method: its value and
\* the state after the status command
active(st0) ==
    Only({IF Falsy(st.process.namespace)
          THEN [result |-> FALSE, st |-> st]
          ELSE Only({[result |-> polled.result,
                      st |-> [st EXCEPT
                                !.process = polled.process,
                                !.log = Append(@, Cmd("status", "none"))]] :
                     polled \in {active_with(st.process, st.dmn)}}) :
          st \in {st0}})

\* the commands of a loop, run in order
RECURSIVE execute_each(_, _, _)
execute_each(st, cmds, fails) ==
    IF cmds = <<>> THEN st
    ELSE execute_each(_execute(st, Head(cmds), TRUE, fails),
                      Tail(cmds), fails)

\* the elements of a set in some order
RECURSIVE SeqOf(_)
SeqOf(S) ==
    IF S = {} THEN <<>>
    ELSE LET x == CHOOSE y \in S : TRUE
         IN  <<x>> \o SeqOf(S \ {x})

\* OpenSwanProcess.disconnect (lines 437-448)
disconnect(st0, fails) ==
    Only({IF st.raised # "none" THEN st
          ELSE IF Falsy(st.process.namespace) THEN st
          ELSE LET ids == SeqOf(DOMAIN st.process.connection_status)
               IN  execute_each(st, [i \in 1..Len(ids) |->
                                        Cmd("terminate", ids[i])], fails) :
          st \in {st0}})

\* OpenSwanProcess.stop (lines 450-458)
stop(st, fails) ==
    _execute(disconnect(st, fails), Cmd("shutdown", "none"), TRUE, fails)

\* the commands of start for the connections of the service: the next hop
\* of each peer is looked up and the connection added (lines 407-415)
addconn_cmds(conns) ==
    [i \in 1..(2 * Len(conns)) |->
        IF i % 2 = 1 THEN Cmd("route_get", conns[(i + 1) \div 2].id)
        ELSE Cmd("addconn", conns[i \div 2].id)]

\* the connections start initiates (lines 425-435)
initiate_cmds(conns) ==
    LET started == SelectSeq(conns, LAMBDA c : c.initiator = "start")
    IN  [i \in 1..Len(started) |-> Cmd("initiate", started[i].id)]

\* OpenSwanProcess.start (lines 386-435)
start(st0, fails) ==
    Only({IF st.raised # "none" THEN st
          ELSE IF Falsy(st.process.namespace) THEN st
          ELSE LET conns == st.process.vpnservice.ipsec_site_connections
               IN  execute_each(
                       _execute(
                           execute_each(
                               _execute(st, Cmd("pluto", "none"), TRUE,
                                        fails),
                               addconn_cmds(conns), fails),
                           Cmd("listen", "none"), FALSE, fails),
                       initiate_cmds(conns), fails) : st \in {st0}})

\* OpenSwanProcess.restart (lines 358-362)
restart(st, fails) ==
    start(stop(st, fails), fails)

\* an except clause that catches nothing
except_nothing(st) ==
    st

\* `except RuntimeError: LOG.exception(...)` (lines 264-267, 275-278)
except_RuntimeError(st0) ==
    Only({IF st.raised = "RuntimeError" THEN [st EXCEPT !.raised = "none"]
          ELSE st : st \in {st0}})

\* the try block of enable after ensure_configs (lines 260-263)
enable_branch(a, fails) ==
    IF a.result THEN restart(a.st, fails) ELSE start(a.st, fails)

\* BaseSwanProcess.enable (lines 256-267)
enable(st, fails) ==
    except_RuntimeError(
        Only({IF s1.raised # "none" THEN s1
              ELSE Only({enable_branch(a, fails) : a \in {active(s1)}}) :
              s1 \in {ensure_configs(st, fails)}}))

\* the try block of disable before remove_config (lines 272-273)
disable_branch(a, fails) ==
    IF a.result THEN stop(a.st, fails) ELSE a.st

\* BaseSwanProcess.disable (lines 269-278)
disable(st, fails) ==
    except_RuntimeError(
        remove_config(
            Only({disable_branch(a, fails) : a \in {active(st)}})))

\* a test that takes every status for a pending one
in_pending_status_any(s) ==
    TRUE

\* plugin_utils.in_pending_status
in_pending_status(s) ==
    s \in {"PENDING_CREATE", "PENDING_UPDATE", "PENDING_DELETE"}

\* the loop of update over the connections of the service (lines 247-254)
update_connection(st, i) ==
    LET conn == st.process.vpnservice.ipsec_site_connections[i]
        tracked == st.process.connection_status
    IN  IF in_pending_status(conn.status) /\ conn.id \in DOMAIN tracked
        THEN [st EXCEPT
                !.process.connection_status[conn.id].updated_pending_status
                    = TRUE,
                !.process.vpnservice.ipsec_site_connections[i].status
                    = tracked[conn.id].status]
        ELSE st

RECURSIVE update_connections(_, _)
update_connections(st0, i) ==
    Only({IF i > Len(st.process.vpnservice.ipsec_site_connections) THEN st
          ELSE update_connections(update_connection(st, i), i + 1) :
          st \in {st0}})

\* update after the process was enabled or disabled (lines 243-254)
update_status(s1) ==
    IF s1.raised # "none" THEN s1
    ELSE Only({update_connections(
                   [a.st EXCEPT
                      !.process.updated_pending_status =
                          @ \/ in_pending_status(s1.process.vpnservice.status),
                      !.process.vpnservice.status =
                          IF a.result THEN constants_ACTIVE
                          ELSE constants_DOWN], 1) : a \in {active(s1)}})

\* an update that enables the process whatever the service says
update_enable_always(st0, fails) ==
    update_status(enable(st0, fails))

\* BaseSwanProcess.update (lines 236-254)
update(st0, fails) ==
    Only({update_status(s1) :
          s1 \in {Only({IF ~st.process.vpnservice.admin_state_up
                        THEN disable(st, fails)
                        ELSE enable(st, fails) : st \in {st0}})}})

-----------------------------------------------------------------------------
(* SpecProcess: one OpenSwanProcess, created with or without a namespace,  *)
(* its daemon, and the lifecycle methods called on it in any order.        *)

\* the services a process is created for: administratively up or down,
\* pending or already reported as active, with one connection that
\* initiates and is pending and one that only responds and is not
LifeServices ==
    {[Service("p1") EXCEPT
         !.admin_state_up = up,
         !.status = status,
         !.ipsec_site_connections =
             @ \o <<[id |-> id_c, initiator |-> "response-only",
                     status |-> constants_ACTIVE]>>] :
     up \in BOOLEAN, status \in {"PENDING_CREATE", constants_ACTIVE}}

InitProcess ==
    /\ ProvInit
    /\ DialInit
    /\ \E vpnservice \in LifeServices, namespace \in Namespaces("p1") :
          processes = ("p1" :> NewProcess("p1", vpnservice, namespace))
    /\ process_status_cache = <<>>
    /\ daemon = ("p1" :> [running |-> FALSE, lines |-> <<>>])
    /\ psr = [op |-> "none"]
    /\ sent = <<>>
    /\ rs = [op |-> "none"]
    /\ LifeInit
    /\ SyncInit

\* the state a method of process pid starts in
EnterState(pid) ==
    [process |-> processes[pid], dmn |-> daemon[pid],
     cfg |-> pid \in config, log |-> <<>>, raised |-> "none"]

\* a method of process pid has run to its end in state st
Finish(op, pid, fails, st0) ==
    /\ \E st \in {st0} :
          /\ processes' = [processes EXCEPT ![pid] = st.process]
          /\ daemon' = [daemon EXCEPT ![pid] = st.dmn]
          /\ config' = IF st.cfg THEN config \cup {pid} ELSE config \ {pid}
          /\ lc' = [op |-> op, pid |-> pid, fails |-> fails,
                    log |-> st.log, raised |-> st.raised,
                    was_active |-> /\ ~Falsy(processes[pid].namespace)
                                   /\ daemon[pid].running]
    /\ UNCHANGED <<provVars, dl, process_status_cache, psr, sent, rs,
                   syncVars>>

\* the status property read from outside (lines 218-234)
poll_status(st) ==
    active(st).st

Enable ==
    \E pid \in DOMAIN processes, fails \in FailureSets :
        Finish("enable", pid, fails, enable(EnterState(pid), fails))

Disable ==
    \E pid \in DOMAIN processes, fails \in FailureSets :
        Finish("disable", pid, fails, disable(EnterState(pid), fails))

Start ==
    \E pid \in DOMAIN processes, fails \in FailureSets :
        Finish("start", pid, fails, start(EnterState(pid), fails))

Stop ==
    \E pid \in DOMAIN processes, fails \in FailureSets :
        Finish("stop", pid, fails, stop(EnterState(pid), fails))

Restart ==
    \E pid \in DOMAIN processes, fails \in FailureSets :
        Finish("restart", pid, fails, restart(EnterState(pid), fails))

Disconnect ==
    \E pid \in DOMAIN processes, fails \in FailureSets :
        Finish("disconnect", pid, fails, disconnect(EnterState(pid), fails))

Update ==
    \E pid \in DOMAIN processes, fails \in FailureSets :
        Finish("update", pid, fails, update(EnterState(pid), fails))

PollStatus ==
    \E pid \in DOMAIN processes :
        Finish("status", pid, {}, poll_status(EnterState(pid)))

\* what the daemon of the process lists while it runs
LifeDaemonStates ==
    {d \in DaemonStates : d.running /\ Len(d.lines) <= 1}

\* the daemon of a process changes what it answers to the status command
DaemonChanges ==
    /\ \E pid \in DOMAIN processes, d \in LifeDaemonStates :
          /\ daemon[pid].running
          /\ d # daemon[pid]
          /\ daemon' = [daemon EXCEPT ![pid] = d]
          /\ lc' = [op |-> "daemon", pid |-> pid]
    /\ UNCHANGED <<provVars, dl, processes, process_status_cache, psr, sent,
                   rs, config, syncVars>>

NextProcess ==
    \/ Enable
    \/ Disable
    \/ Start
    \/ Stop
    \/ Restart
    \/ Disconnect
    \/ Update
    \/ PollStatus
    \/ DaemonChanges

SpecProcess ==
    InitProcess /\ [][NextProcess]_vars

\* the names of the commands a lifecycle method has run
LogNames ==
    [i \in 1..Len(lc.log) |-> lc.log[i].name]

\* the configuration was written without failure
ConfigsWritten ==
    lc.fails \cap {"configs", "configs_oserror"} = {}

\* C13: enable() renders the configuration before any other command, then
\* restarts the process if it is active (the stop commands come first) and
\* starts it otherwise (no stop command is run), and no RuntimeError of any
\* of its steps propagates to the caller.
C13_EnableContract ==
    lc.op = "enable" =>
        /\ lc.raised # "RuntimeError"
        /\ LogNames # <<>> /\ LogNames[1] = "configs"
        /\ (ConfigsWritten /\ lc.was_active) =>
              /\ Len(LogNames) >= 3
              /\ LogNames[2] = "status"
              /\ LogNames[3] \in {"terminate", "shutdown"}
              /\ lc.fails \cap {"terminate", "shutdown"} = {} =>
                    \E i \in 4..Len(LogNames) :
                        /\ LogNames[i - 1] = "shutdown"
                        /\ LogNames[i] = "pluto"
        /\ (ConfigsWritten /\ ~lc.was_active) =>
              /\ \A i \in 1..Len(LogNames) :
                    LogNames[i] \notin {"terminate", "shutdown"}
              /\ IF Falsy(processes[lc.pid].namespace)
                 THEN LogNames = <<"configs">>
                 ELSE /\ Len(LogNames) >= 3
                      /\ LogNames[2] = "status"
                      /\ LogNames[3] = "pluto"

\* C13 witness: enable() of an active process has returned normally although
\* the shutdown command of its restart failed.
C13_Witness ==
    /\ lc.op = "enable"
    /\ lc.was_active
    /\ "shutdown" \in lc.fails
    /\ LogNames[Len(LogNames)] = "shutdown"
    /\ lc.raised = "none"

\* C14: when disable() returns, the rendered configuration directory of the
\* process is removed, whether the process was active or not and whether
\* stop() succeeded or failed.
C14_DisableRemovesConfig ==
    lc.op = "disable" => lc.pid \notin config

\* C15: a lifecycle operation of a process without a namespace runs no
\* daemon command and writes no configuration file; the one effect allowed
\* is the removal of the configuration directory by disable().
C15_NoNamespaceIsNoOp ==
    (/\ lc.op \in {"enable", "disable", "start", "stop", "restart",
                   "disconnect", "status"}
     /\ Falsy(processes[lc.pid].namespace))
        => \A i \in 1..Len(LogNames) :
              /\ lc.op = "disable"
              /\ LogNames[i] = "rmtree"

\* the pending states of the orchestrator's records
IsPending(s) ==
    s \in {"PENDING_CREATE", "PENDING_UPDATE", "PENDING_DELETE"}

\* the aggregate status a poll of process pid gives in the state a step
\* leads to
PolledStatusAfter(pid) ==
    IF ~Falsy(processes'[pid].namespace) /\ daemon'[pid].running
    THEN "ACTIVE" ELSE "DOWN"

\* the step is an update() that called enable() if the service is
\* administratively up and disable() if it is not
UpdateAppliesAdminState ==
    processes[lc'.pid].vpnservice.admin_state_up
        <=> (lc'.log # <<>> /\ lc'.log[1].name = "configs")

C26_FlagsSetOnlyByUpdate ==
    [][\A pid \in DOMAIN processes :
          LET before == processes[pid]
              after == processes'[pid]
              conns == before.vpnservice.ipsec_site_connections
          IN  /\ (after.updated_pending_status
                     /\ ~before.updated_pending_status) =>
                    /\ lc'.op = "update"
                    /\ lc'.pid = pid
                    /\ IsPending(before.vpnservice.status)
              /\ \A k \in DOMAIN after.connection_status :
                    (/\ after.connection_status[k].updated_pending_status
                     /\ \/ k \notin DOMAIN before.connection_status
                        \/ ~before.connection_status[k]
                               .updated_pending_status) =>
                        /\ lc'.op = "update"
                        /\ lc'.pid = pid
                        /\ \E i \in 1..Len(conns) :
                              /\ conns[i].id = k
                              /\ IsPending(conns[i].status)
              /\ \A k \in DOMAIN before.connection_status :
                    /\ k \in DOMAIN after.connection_status
                    /\ before.connection_status[k].updated_pending_status
                          => after.connection_status[k]
                                 .updated_pending_status]_vars

\* C26 witness: a status poll has run on a process whose flag and whose
\* connection's flag an earlier update() had set, and both are still set.
C26_Witness ==
    /\ lc.op = "status"
    /\ processes[lc.pid].updated_pending_status
    /\ id_ab1 \in DOMAIN processes[lc.pid].connection_status
    /\ processes[lc.pid].connection_status[id_ab1].updated_pending_status

\* the commands of the daemon a lifecycle method has run, without the
\* look-ups of the next hop
IpsecCmds ==
    SelectSeq(lc.log, LAMBDA c : c.name # "route_get")

\* the place of a command in the order of start
StartRank ==
    [pluto |-> 1, addconn |-> 2, listen |-> 3, initiate |-> 4]

\* the connections of the service, and those the orchestrator configured
\* to initiate
ConnectionIds ==
    <<id_ab1, id_c>>

BidirectionalIds ==
    <<id_ab1>>

\* the arguments of the commands of one name, in the order they were run
ArgsOf(name) ==
    LET cmds == SelectSeq(IpsecCmds, LAMBDA c : c.name = name)
    IN  [i \in 1..Len(cmds) |-> cmds[i].arg]

\* C28: start() runs the keying daemon first, then one add-connection per
\* connection of the service, then listen, then the initiates; it initiates
\* exactly the connections configured as bi-directional and no response-only
\* one, each after it was added and after listen.
C28_StartOrder ==
    lc.op = "start" =>
        /\ \A i, j \in 1..Len(IpsecCmds) :
              i < j => StartRank[IpsecCmds[i].name]
                           <= StartRank[IpsecCmds[j].name]
        /\ Len(ArgsOf("pluto")) <= 1
        /\ (lc.log # <<>> /\ lc.raised = "none") =>
              /\ IpsecCmds[1].name = "pluto"
              /\ ArgsOf("addconn") = ConnectionIds
              /\ Len(ArgsOf("listen")) = 1
              /\ ArgsOf("initiate") = BidirectionalIds
        /\ lc.log = <<>> <=> Falsy(processes[lc.pid].namespace)

\* C28 witness: start() has run to its last initiate.
C28_Witness ==
    /\ lc.op = "start"
    /\ lc.raised = "none"
    /\ lc.log # <<>>
    /\ lc.log[Len(lc.log)].name = "initiate"

\* C29: stop() runs a terminate for every connection of the tracked
\* connection-status map and then the shutdown of the keying daemon, which
\* it runs whenever it is entered.
C29_StopTerminatesThenShutsDown ==
    lc.op = "stop" =>
        /\ lc.log # <<>>
        /\ lc.log[Len(lc.log)].name = "shutdown"
        /\ \A i \in 1..(Len(lc.log) - 1) : lc.log[i].name = "terminate"
        /\ ~Falsy(processes[lc.pid].namespace) =>
              {lc.log[i].arg : i \in 1..(Len(lc.log) - 1)} =
                  DOMAIN processes[lc.pid].connection_status

-----------------------------------------------------------------------------
(* SpecLoop: the reconciliation loop that report_status holds after its    *)
(* early return (lines 960-974), as the pass would run if the handler      *)
(* reached it, over one process that is updated and whose daemon changes.  *)

MaxReports == 2

\* CiscoCsrIPsecDriver.copy_process_status: reading process.status polls the
\* daemon, and the connection map is deep-copied as it is at that moment
copy_process_status(process) ==
    LET polled == process_status(process)
    IN  [id |-> process.vpnservice.id,
         status |-> polled.result,
         updated_pending_status |-> process.updated_pending_status,
         ipsec_site_connections |-> polled.process.connection_status]

\* CiscoCsrIPsecDriver.unset_updated_pending_status
unset_updated_pending_status(process) ==
    [process EXCEPT
        !.updated_pending_status = FALSE,
        !.connection_status =
            [k \in DOMAIN @ |-> [@[k] EXCEPT !.updated_pending_status = FALSE]]]

\* the processes in the order the map yields them
ProcessOrder ==
    SelectSeq(<<"p1", "p2">>, LAMBDA p : p \in DOMAIN processes)

\* one iteration of the loop (lines 961-969): the process and its snapshot
\* after it, and whether the process was put in the batch
report_status_iteration(process) ==
    LET previous_status == get_process_status_cache(process)
        polled == process_status(process).process
    IN  IF is_status_updated(process, previous_status)
        THEN [changed |-> TRUE,
              cache |-> copy_process_status(polled),
              process |-> unset_updated_pending_status(polled)]
        ELSE [changed |-> FALSE,
              cache |-> previous_status,
              process |-> polled]

\* the body of report_status behind the early return (lines 960-974): the
\* loop over the processes, then the batch is sent if it is not empty;
\* send_ok tells whether agent_rpc.update_status returns or raises
report_status_body(send_ok) ==
    \E its \in {[pid \in DOMAIN processes |->
                    report_status_iteration(processes[pid])]} :
       LET changed == SelectSeq(ProcessOrder, LAMBDA p : its[p].changed)
           status_changed_vpn_services ==
               [i \in 1..Len(changed) |-> its[changed[i]].cache]
       IN  /\ processes' = [pid \in DOMAIN processes |-> its[pid].process]
           /\ process_status_cache' =
                  [pid \in DOMAIN processes |-> its[pid].cache]
           /\ sent' = IF status_changed_vpn_services # <<>> /\ send_ok
                      THEN Append(sent, status_changed_vpn_services)
                      ELSE sent
           /\ lc' = [op |-> "report_status",
                     reported |-> {changed[i] : i \in 1..Len(changed)},
                     send_ok |-> send_ok,
                     pass |-> IF lc.op = "report_status"
                              THEN 1 - lc.pass ELSE 0]

ReportPass ==
    /\ Len(sent) < MaxReports
    /\ \E send_ok \in BOOLEAN : report_status_body(send_ok)
    /\ UNCHANGED <<provVars, dl, daemon, psr, rs, config, syncVars>>

NextLoop ==
    \/ Update
    \/ DaemonChanges
    \/ ReportPass

SpecLoop ==
    InitProcess /\ [][NextLoop]_vars

NextReport ==
    \/ Update
    \/ DaemonChanges
    \/ ReportStatus

SpecReport ==
    InitProcess /\ [][NextReport]_vars

\* a step that is a reconciliation pass: a call of report_status, or a run
\* of the loop behind its early return
PassStep ==
    \/ rs'.op = "report" /\ rs' # rs
    \/ lc'.op = "report_status" /\ lc' # lc

\* the processes a pass put in its batch
BatchOfPass ==
    IF lc'.op = "report_status" /\ lc' # lc THEN lc'.reported ELSE {}

\* C35: a pass that runs while a connection of a tracked process has its
\* pending-update flag set puts that process in its batch and clears the
\* flag, so that no flag outlives the passes that follow it.
C35_FlaggedIsReported ==
    [][PassStep
          => \A pid \in DOMAIN processes :
                (\E k \in DOMAIN processes[pid].connection_status :
                    processes[pid].connection_status[k]
                        .updated_pending_status)
                  => /\ pid \in BatchOfPass
                     /\ \A k \in DOMAIN processes'[pid].connection_status :
                           ~processes'[pid].connection_status[k]
                                .updated_pending_status]_vars

-----------------------------------------------------------------------------
(* SpecSync: threads of the agent calling sync, which is decorated with    *)
(* lockutils.synchronized('vpn-agent', 'neutron-') (lines 976-994).        *)

\* each thread calls sync at most MaxSyncs times
MaxSyncs == 2

\* a lock that every caller may take at once
lock_always_available ==
    TRUE

\* the lock 'neutron-vpn-agent' can be taken
lock_available ==
    lock = "free"

\* a thread calls sync and waits for the lock
sync_call(t) ==
    /\ sync_pc[t] = "idle"
    /\ sync_done[t] < MaxSyncs
    /\ sync_pc' = [sync_pc EXCEPT ![t] = "waiting"]
    /\ UNCHANGED <<lock, sync_done>>

\* the decorator takes the lock and enters the body of sync
sync_enter(t) ==
    /\ sync_pc[t] = "waiting"
    /\ lock_available
    /\ lock' = t
    /\ sync_pc' = [sync_pc EXCEPT ![t] = "body"]
    /\ UNCHANGED sync_done

\* the body of sync (lines 993-994) logs and returns; the decorator
\* releases the lock
sync_return(t) ==
    /\ sync_pc[t] = "body"
    /\ lock' = "free"
    /\ sync_pc' = [sync_pc EXCEPT ![t] = "idle"]
    /\ sync_done' = [sync_done EXCEPT ![t] = @ + 1]

SyncCall ==
    /\ \E t \in Threads : sync_call(t)
    /\ UNCHANGED <<provVars, dl, processes, process_status_cache, daemon,
                   psr, sent, rs, lifeVars>>

SyncEnter ==
    /\ \E t \in Threads : sync_enter(t)
    /\ UNCHANGED <<provVars, dl, processes, process_status_cache, daemon,
                   psr, sent, rs, lifeVars>>

SyncReturn ==
    /\ \E t \in Threads : sync_return(t)
    /\ UNCHANGED <<provVars, dl, processes, process_status_cache, daemon,
                   psr, sent, rs, lifeVars>>

NextSync ==
    \/ SyncCall
    \/ SyncEnter
    \/ SyncReturn

SpecSync ==
    Init /\ [][NextSync]_vars

\* C19: at most one thread executes the body of sync at any time.
C19_SyncMutualExclusion ==
    Cardinality({t \in Threads : sync_pc[t] = "body"}) <= 1

\* C19 witness: one thread is in the body of sync while two others have
\* called sync and wait.
C19_Witness ==
    /\ \E t \in Threads : sync_pc[t] = "body"
    /\ Cardinality({t \in Threads : sync_pc[t] = "waiting"}) = 2

=============================================================================
